---- MODULE Spec2Model ----
(***************************************************************************)
(* Model of the NextUP collection manager (src/src/Manager/DataManager.ts) *)
(* over the key-value store (LocalStorageManager, src/src/API/tmdb.ts).    *)
(*                                                                         *)
(* Spec runs the collection operations one at a time: every action is one  *)
(* whole call of a DataManager method, from its first storage read to its  *)
(* return or throw; Return is the caller taking the settled promise, after *)
(* which the next call can be made.                                        *)
(*                                                                         *)
(* JavaScript objects are functions from key names to values.  A key that  *)
(* holds `undefined` is modelled as an absent key: reading either gives    *)
(* undefined in JavaScript, and JSON.stringify writes neither.             *)
(* Timestamps (new Date().toISOString()) are readings of a clock that      *)
(* never runs backwards, modelled as naturals; ISO strings of equal length *)
(* order the same way as the instants they denote.  Consecutive calls read *)
(* the clock one tick apart until it stops at MaxClock, so that runs hold  *)
(* both later and equal timestamps.                                        *)
(*                                                                         *)
(* Further specifications over the same state: ProfileSpec (profile        *)
(* operations at the validation limits), FieldSpec (rating, notes and      *)
(* progress at their limits, NaN included), ValidateSpec (the validation   *)
(* helper), ListenerSpec (operations with listeners registered), ConcSpec  *)
(* (calls of addItem and removeItem overlapping at their awaits),         *)
(* ReadSpec (the read operations over whatever text storage holds) and     *)
(* LaunchSpec (the first-launch flag).  For LocalStorageManager itself:    *)
(* KvsSpec (get, set, remove and clear step by step through the retry      *)
(* loop, storage holding JSON texts as token sequences; KvsFairSpec adds   *)
(* fairness), MigrateSpec (migrateData), BackupSpec (restoreFromBackup) and *)
(* RoundTripSpec (createBackup, changes of storage, then the restore).     *)
(* AccountSpec runs the profile, first-launch and collection calls in any  *)
(* order, FailSpec the mutating calls with writes that give up, and        *)
(* StreakSpec the viewing streak of StatisticsManager.                     *)
(***************************************************************************)
EXTENDS Integers, Sequences, FiniteSets, TLC

\* ---------------------------------------------------------------- bounds
MaxAdds  == 2      \* collection items ever created (uuids handed out)
MaxClock == 3      \* the reading at which the model's clock stops advancing
MaxPending == 2   \* calls in flight at once, where calls overlap
MaxVersion == 3   \* the highest version a migration has
MaxApplied == 1   \* migrations applied so far, beyond which none is started
MaxItems == 3     \* watched items given to the statistics
Today == 3        \* the number of today's calendar day

\* ------------------------------------------------------ program constants
MIN_RATING       == 1
MAX_RATING       == 10
MIN_PROGRESS     == 0
MAX_PROGRESS     == 100
MAX_NOTES_LENGTH == 500
MIN_AGE          == 1
MAX_AGE          == 120
MIN_NAME_LENGTH  == 1
MAX_NAME_LENGTH  == 50
\* APP_CONFIG.STORAGE_RETRY_ATTEMPTS, and the manager's two settings
STORAGE_RETRY_ATTEMPTS == 3
maxRetries == STORAGE_RETRY_ATTEMPTS
retryDelay == 1000

COLLECTIONS == "collections"
USER_PROFILE == "user_profile"
IS_FIRST_LAUNCH == "is_first_launch"
STORAGE_KEYS == {USER_PROFILE, COLLECTIONS, "theme_preference", IS_FIRST_LAUNCH}

CollectionStatus == {"watched", "watching", "will_watch"}
\* Object.keys order of the collections record
StatusOrder == <<"watched", "watching", "will_watch">>

\* ---------------------------------------------------------------- inputs
\* JavaScript's null
Null == [null |-> TRUE]
\* catalog entries, as transformTMDBItem builds them from TMDB records
Media(id, title) ==
  [id |-> id, title |-> title, overview |-> "", posterPath |-> "/p.jpg",
   backdropPath |-> Null, releaseDate |-> "2020-01-01", voteAverage |-> 7,
   genreIds |-> <<18>>, mediaType |-> "movie", originalLanguage |-> "en"]
MediaItems == {Media(1, "a"), Media(2, "b")}
ItemIds  == 1..MaxAdds
RatingInputs   == {[num |-> MIN_RATING - 1], [num |-> MIN_RATING], [num |-> MAX_RATING + 1]}
ProgressInputs == {[num |-> MIN_PROGRESS - 1], [num |-> MAX_PROGRESS], [num |-> MAX_PROGRESS + 1]}
\* a string is a sequence of runs [c, n]: n >= 1 copies of character c
Sp(n) == [c |-> " ", n |-> n]
Ch(n) == [c |-> "x", n |-> n]
NotesInputs == { <<Sp(1), Ch(2), Sp(2)>>, <<Ch(MAX_NOTES_LENGTH + 1)>> }

VARIABLES
  medium,    \* AsyncStorage: key -> stored text, or Absent
  clock,     \* the last reading of the system clock
  nextId,    \* the next uuid generateId hands out
  added,     \* addItem calls that returned an item
  removed,   \* items taken out by removeItem and clearCollection
  emitted,   \* events the call in lastOp passed to emitChange
  lastOp,    \* the call that has just settled, until the caller takes it
  listeners, \* DataManager.listeners, in registration order
  inbox,     \* the listener calls emitChange made for the events in emitted
  pending    \* calls in flight, when calls are allowed to overlap
vars == <<medium, clock, nextId, added, removed, emitted, lastOp,
          listeners, inbox, pending>>

\* ------------------------------------------------------------ JS helpers
Absent == [kind |-> "absent"]

Has(obj, k) == k \in DOMAIN obj

\* A rating or progress is a JavaScript number: an integer n, Num(n), or
\* NaN; every comparison with NaN is false
Num(n) == [num |-> n]
NaN == [nan |-> TRUE]
Less(a, b) == Has(a, "num") /\ Has(b, "num") /\ a.num < b.num
\* JSON.stringify writes null for NaN
jsonNumber(x) == IF x = NaN THEN Null ELSE x
Without(obj, k) == [x \in DOMAIN obj \ {k} |-> obj[x]]

RECURSIVE StrLen(_)
StrLen(s) == IF s = <<>> THEN 0 ELSE Head(s).n + StrLen(Tail(s))

RECURSIVE TrimStart(_)
TrimStart(s) == IF s # <<>> /\ Head(s).c = " " THEN TrimStart(Tail(s)) ELSE s

RECURSIVE TrimEnd(_)
TrimEnd(s) ==
  IF s # <<>> /\ s[Len(s)].c = " " THEN TrimEnd(SubSeq(s, 1, Len(s) - 1)) ELSE s

\* a trim of the front only
TrimStartOnly(s) == TrimStart(s)

Trim(s) == TrimEnd(TrimStart(s))

\* JSON.stringify / JSON.parse of the values the collection operations store
\* (plain objects and arrays of strings, finite numbers and null, no key
\* holding undefined): the text decodes to an equal value
JSONstringify(v) == [kind |-> "json", value |-> v]
JSONparse(t) == t.value

\* new Date().toISOString(), first reading of a call: one tick after the
\* last reading, until the clock stops at MaxClock
Now(last) == IF last < MaxClock THEN last + 1 ELSE MaxClock
\* a further reading in the same call: the same instant or the next tick
Again(first) == {t \in first..(first + 1) : t <= MaxClock}

\* findIndex(i => i.id === itemId), 0 for -1
FindIndex(collection, itemId) ==
  IF \E i \in 1..Len(collection) : collection[i].id = itemId
  THEN CHOOSE i \in 1..Len(collection) :
         /\ collection[i].id = itemId
         /\ \A j \in 1..(i - 1) : collection[j].id # itemId
  ELSE 0

\* mutant: splice(i, 0), which takes nothing out
SpliceNothing(collection, i) == collection

\* mutant: splice(i), which takes out everything from i on
SpliceToEnd(collection, i) == SubSeq(collection, 1, i - 1)

\* collection.splice(i, 1)
Splice(collection, i) ==
  SubSeq(collection, 1, i - 1) \o SubSeq(collection, i + 1, Len(collection))

\* mutant: the partition is replaced by the new item alone
PushAlone(collection, item) == <<item>>
Push(collection, item) == Append(collection, item)

\* mutant: the item is taken out and pushed at the end
MoveToEnd(collection, index, item) ==
  Append(SubSeq(collection, 1, index - 1)
           \o SubSeq(collection, index + 1, Len(collection)), item)

\* collection[index] = item
ReplaceAt(collection, index, item) == [collection EXCEPT ![index] = item]

\* ------------------------------------------------------ Types / helpers
\* The type guards.  Every field of the model holds a value of the type its
\* writer gives it, so of a `typeof` test what remains is that the key is
\* there; the tests on mediaType and status compare values.
isMediaItem(obj) ==
  /\ Has(obj, "id")
  /\ Has(obj, "title")
  /\ Has(obj, "overview")
  /\ Has(obj, "posterPath")
  /\ Has(obj, "backdropPath")
  /\ Has(obj, "releaseDate")
  /\ Has(obj, "voteAverage")
  /\ Has(obj, "genreIds")
  /\ Has(obj, "mediaType") /\ obj.mediaType \in {"movie", "tv"}
  /\ Has(obj, "originalLanguage")

isCollectionItem(obj) ==
  /\ Has(obj, "id")
  /\ Has(obj, "mediaItem") /\ isMediaItem(obj.mediaItem)
  /\ Has(obj, "status") /\ obj.status \in CollectionStatus
  /\ Has(obj, "addedAt")
  /\ Has(obj, "updatedAt")

\* id: the uuid generateId gives, modelled by its ordinal
createCollectionItem(mediaItem, status, id, now) ==
  [id |-> id, mediaItem |-> mediaItem, status |-> status,
   addedAt |-> now, updatedAt |-> now]

\* mutant: the status field is left as it was
keepStatus(item, newStatus, now1, now2) ==
  LET base == ("updatedAt" :> now1) @@ item
      cleared == IF newStatus # "watched" THEN Without(base, "watchedDate")
                 ELSE base
  IN  IF newStatus = "watched" /\ ~Has(item, "watchedDate")
      THEN ("watchedDate" :> now2) @@ cleared
      ELSE cleared

\* mutant: watchedDate is stamped on every move to watched
alwaysStamp(item, newStatus, now1, now2) ==
  LET base == ("status" :> newStatus) @@ ("updatedAt" :> now1) @@ item
  IN  IF newStatus = "watched"
      THEN ("watchedDate" :> now2) @@ base
      ELSE Without(base, "watchedDate")

\* mutant: the item is built anew for the new status
recreateItem(item, newStatus, now1, now2) ==
  createCollectionItem(item.mediaItem, newStatus, item.id, now1)

\* now1, now2: the readings of the clock the two `new Date()` give
updateCollectionItemStatus(item, newStatus, now1, now2) ==
  LET base == ("status" :> newStatus) @@ ("updatedAt" :> now1) @@ item
      cleared == IF newStatus # "watched" THEN Without(base, "watchedDate")
                 ELSE base
  IN  IF newStatus = "watched" /\ ~Has(item, "watchedDate")
      THEN ("watchedDate" :> now2) @@ cleared
      ELSE cleared

\* mutant: updatedAt is stamped with the creation time
staleStamp(item, updates, now) ==
  ("updatedAt" :> item.addedAt) @@ updates @@ item

\* { ...item, ...updates, updatedAt: now }
mergeUpdates(item, updates, now) == ("updatedAt" :> now) @@ updates @@ item

\* mutant: compares the collection item's own id with the media id
findByItemId(mediaId, collection) ==
  IF \E i \in 1..Len(collection) : collection[i].id = mediaId
  THEN collection[CHOOSE i \in 1..Len(collection) :
         /\ collection[i].id = mediaId
         /\ \A j \in 1..(i - 1) : collection[j].id # mediaId]
  ELSE Null

findCollectionItemByMediaId(mediaId, collection) ==
  IF \E i \in 1..Len(collection) : collection[i].mediaItem.id = mediaId
  THEN collection[CHOOSE i \in 1..Len(collection) :
         /\ collection[i].mediaItem.id = mediaId
         /\ \A j \in 1..(i - 1) : collection[j].mediaItem.id # mediaId]
  ELSE Null

\* ---------------------------------------------------- DataManager reads
EmptyCollections == [watched |-> <<>>, watching |-> <<>>, will_watch |-> <<>>]

\* storageManager.get of a key whose text decodes
storageGet(m, key) == IF m[key] = Absent THEN Null ELSE JSONparse(m[key])

\* storageManager.set
storageSet(m, key, value) == [m EXCEPT ![key] = JSONstringify(value)]

getAllCollections(m) ==
  LET collections == storageGet(m, COLLECTIONS)
  IN  IF collections = Null THEN EmptyCollections
      ELSE [s \in CollectionStatus |->
              \* collections[s]?.filter(isCollectionItem) || []
              IF Has(collections, s)
              THEN SelectSeq(collections[s], isCollectionItem) ELSE <<>>]

\* what JSON.stringify writes for a collection item: as it is, but for numbers
jsonItem(item) ==
  [k \in DOMAIN item |->
     IF k \in {"userRating", "progress"} THEN jsonNumber(item[k]) ELSE item[k]]

jsonCollections(collections) ==
  [s \in DOMAIN collections |->
     [i \in 1..Len(collections[s]) |-> jsonItem(collections[s][i])]]

saveAllCollections(m, collections) ==
  storageSet(m, COLLECTIONS, jsonCollections(collections))

getItemsByStatus(m, status) == getAllCollections(m)[status]

\* mutant: the loop returns after its first partition
FindInFirstOnly(collections, mediaId, k) ==
  findCollectionItemByMediaId(mediaId, collections[StatusOrder[k]])

RECURSIVE FindFrom(_, _, _)
FindFrom(collections, mediaId, k) ==
  IF k > Len(StatusOrder) THEN Null
  ELSE LET item == findCollectionItemByMediaId(mediaId, collections[StatusOrder[k]])
       IN  IF item # Null THEN item ELSE FindFrom(collections, mediaId, k + 1)

findItemByMediaId(m, mediaId) == FindFrom(getAllCollections(m), mediaId, 1)

getAllItems(m) ==
  LET c == getAllCollections(m) IN c.watched \o c.watching \o c.will_watch

\* ------------------------------------------------------- bookkeeping
\* op: the method; from: the partition that held the item it changed;
\* code: "OK" or the code of the StorageError thrown; cause: the code of the
\* error that one wraps; writes: calls of AsyncStorage.setItem it made
Result(op, from, code, cause, writes) ==
  [op |-> op, from |-> from, code |-> code, cause |-> cause, writes |-> writes]

NoOp == Result("none", "none", "OK", "", 0)

\* no call is in progress and no result is waiting for the caller
Idle == lastOp.op = "none"

\* ------------------------------------------------------------ listeners
\* A listener is a function registered with addListener: id names it, does
\* says what it does when called: return ("ok"), throw ("throw"), or call
\* the unsubscribe handle addListener gave it and return ("unsubscribe").
Listener(id, does) == [id |-> id, does |-> does]

\* the handle addListener returns: indexOf, then splice(index, 1)
unsubscribe(ls, id) ==
  IF \E i \in 1..Len(ls) : ls[i].id = id
  THEN LET index == CHOOSE i \in 1..Len(ls) :
                      /\ ls[i].id = id
                      /\ \A j \in 1..(i - 1) : ls[j].id # id
       IN  SubSeq(ls, 1, index - 1) \o SubSeq(ls, index + 1, Len(ls))
  ELSE ls

\* a dispatch that a throwing listener ends
RECURSIVE stopAtThrow(_, _, _, _, _)
stopAtThrow(ls, k, len, event, calls) ==
  IF k > len THEN [listeners |-> ls, inbox |-> calls]
  ELSE IF k > Len(ls) THEN stopAtThrow(ls, k + 1, len, event, calls)
  ELSE LET listener == ls[k]
           called == Append(calls, [to |-> listener.id, event |-> event,
                                    threw |-> listener.does = "throw"])
           after == IF listener.does = "unsubscribe"
                    THEN unsubscribe(ls, listener.id) ELSE ls
       IN  IF listener.does = "throw"
           THEN [listeners |-> after, inbox |-> called]
           ELSE stopAtThrow(after, k + 1, len, event, called)

\* this.listeners.forEach(listener => { try { listener(event) } catch {} }):
\* forEach visits the indices below the length the array had at the start,
\* reading the array as it is when each index comes up
RECURSIVE forEachListener(_, _, _, _, _)
forEachListener(ls, k, len, event, calls) ==
  IF k > len THEN [listeners |-> ls, inbox |-> calls]
  ELSE IF k > Len(ls) THEN forEachListener(ls, k + 1, len, event, calls)
  ELSE LET listener == ls[k]
           called == Append(calls, [to |-> listener.id, event |-> event,
                                    threw |-> listener.does = "throw"])
           after == IF listener.does = "unsubscribe"
                    THEN unsubscribe(ls, listener.id) ELSE ls
       IN  forEachListener(after, k + 1, len, event, called)

emitChange(event) ==
  LET done == forEachListener(listeners, 1, Len(listeners), event, <<>>)
  IN  /\ emitted' = <<event>>
      /\ listeners' = done.listeners
      /\ inbox' = done.inbox

\* the call throws: nothing was written, nothing was emitted
Throws(op, code, cause) ==
  /\ lastOp' = Result(op, "none", code, cause, 0)
  /\ emitted' = <<>>
  /\ inbox' = <<>>
  /\ UNCHANGED <<medium, added, removed, listeners>>

\* where the call's storage access gives up after its retries, if anywhere:
\* in storageManager.get, in storageManager.set, or nowhere
Faults == {"none", "read", "write"}

Init ==
  /\ medium = [k \in STORAGE_KEYS |-> Absent]
  /\ clock = 0
  /\ nextId = 1
  /\ added = 0
  /\ removed = 0
  /\ emitted = <<>>
  /\ lastOp = NoOp
  /\ listeners = <<>>
  /\ inbox = <<>>
  /\ pending = <<>>

\* --------------------------------------------------------------- addItem
addItem(mediaItem, status) ==
  /\ Idle
  /\ UNCHANGED pending
  /\ \E fault \in Faults, collections \in {getAllCollections(medium)} :
       LET existingItem == findItemByMediaId(medium, mediaItem.id)
           now == Now(clock)
           newItem == createCollectionItem(mediaItem, status, nextId, now)
           updated == [collections EXCEPT ![status] = Push(@, newItem)]
       IN  IF fault = "read"
           THEN /\ Throws("addItem", "ADD_ITEM_ERROR", "GET_COLLECTIONS_ERROR")
                /\ UNCHANGED <<clock, nextId>>
           ELSE IF existingItem # Null
           THEN /\ Throws("addItem", "ADD_ITEM_ERROR", "DUPLICATE_ITEM")
                /\ UNCHANGED <<clock, nextId>>
           ELSE /\ nextId <= MaxAdds
                /\ clock' = now
                /\ nextId' = nextId + 1
                /\ IF fault = "write"
                   THEN Throws("addItem", "ADD_ITEM_ERROR", "SAVE_COLLECTIONS_ERROR")
                   ELSE /\ medium' = saveAllCollections(medium, updated)
                        /\ emitChange([type |-> "ITEM_ADDED", item |-> newItem])
                        /\ added' = added + 1
                        /\ UNCHANGED removed
                        /\ lastOp' = Result("addItem", status, "OK", "", 1)

\* ------------------------------------------------------------ removeItem
\* mutant: every partition counts as holding the id
AllPartitions(collections, itemId) == CollectionStatus

\* the partitions in which findIndex finds the id
Holders(collections, itemId) ==
  {s \in CollectionStatus : FindIndex(collections[s], itemId) > 0}

\* the forEach over Object.keys(collections): splice the first match out of
\* every partition that has one
RemoveFromAll(collections, itemId) ==
  [s \in CollectionStatus |->
     LET index == FindIndex(collections[s], itemId)
     IN  IF index > 0 THEN Splice(collections[s], index) ELSE collections[s]]

\* the last partition, in Object.keys order, that holds the id
RECURSIVE LastHolder(_, _, _)
LastHolder(collections, itemId, k) ==
  IF k = 0 THEN "none"
  ELSE IF FindIndex(collections[StatusOrder[k]], itemId) > 0 THEN StatusOrder[k]
  ELSE LastHolder(collections, itemId, k - 1)

\* the item the forEach leaves in `item`: the match in the last holder
LastMatch(collections, itemId) ==
  LET status == LastHolder(collections, itemId, Len(StatusOrder))
  IN  IF status = "none" THEN Null
      ELSE collections[status][FindIndex(collections[status], itemId)]

removeItem(itemId) ==
  /\ Idle
  /\ UNCHANGED pending
  /\ \E fault \in Faults, collections \in {getAllCollections(medium)} :
       LET itemRemoved == Holders(collections, itemId) # {}
           updated == RemoveFromAll(collections, itemId)
           from == LastHolder(collections, itemId, Len(StatusOrder))
       IN  /\ UNCHANGED <<clock, nextId>>
           /\ IF fault = "read"
              THEN Throws("removeItem", "REMOVE_ITEM_ERROR", "GET_COLLECTIONS_ERROR")
              ELSE IF ~itemRemoved
              THEN Throws("removeItem", "REMOVE_ITEM_ERROR", "ITEM_NOT_FOUND")
              ELSE IF fault = "write"
              THEN Throws("removeItem", "REMOVE_ITEM_ERROR", "SAVE_COLLECTIONS_ERROR")
              ELSE /\ medium' = saveAllCollections(medium, updated)
                   /\ emitChange([type |-> "ITEM_REMOVED", itemId |-> itemId])
                   /\ removed' = removed + Cardinality(Holders(collections, itemId))
                   /\ UNCHANGED added
                   /\ lastOp' = Result("removeItem", from, "OK", "", 1)

\* ------------------------------------------------------ updateItemStatus
updateItemStatus(itemId, newStatus) ==
  /\ Idle
  /\ UNCHANGED pending
  /\ \E fault \in Faults, later \in Again(Now(clock)),
        collections \in {getAllCollections(medium)} :
       LET item == LastMatch(collections, itemId)
           from == LastHolder(collections, itemId, Len(StatusOrder))
           spliced == RemoveFromAll(collections, itemId)
           now1 == Now(clock)
           \* the second reading is taken only when watchedDate is stamped
           stamps == newStatus = "watched" /\ ~Has(item, "watchedDate")
           now2 == IF stamps THEN later ELSE now1
           updatedItem == updateCollectionItemStatus(item, newStatus, now1, now2)
           updated == [spliced EXCEPT ![newStatus] = Push(@, updatedItem)]
       IN  /\ UNCHANGED nextId
           /\ IF fault = "read"
              THEN /\ Throws("updateItemStatus", "UPDATE_STATUS_ERROR", "GET_COLLECTIONS_ERROR")
                   /\ UNCHANGED clock
              ELSE IF item = Null
              THEN /\ Throws("updateItemStatus", "UPDATE_STATUS_ERROR", "ITEM_NOT_FOUND")
                   /\ UNCHANGED clock
              ELSE /\ clock' = now2
                   /\ IF fault = "write"
                      THEN Throws("updateItemStatus", "UPDATE_STATUS_ERROR", "SAVE_COLLECTIONS_ERROR")
                      ELSE /\ medium' = saveAllCollections(medium, updated)
                           /\ emitChange([type |-> "ITEM_UPDATED", item |-> updatedItem])
                           /\ UNCHANGED <<added, removed>>
                           /\ lastOp' = Result("updateItemStatus", from, "OK", "", 1)

\* ------------------------------------------------------- updateItemField
updateItemField(op, itemId, updates) ==
  \E fault \in Faults, collections \in {getAllCollections(medium)} :
    LET item == LastMatch(collections, itemId)
        collectionStatus == LastHolder(collections, itemId, Len(StatusOrder))
        now == Now(clock)
        updatedItem == mergeUpdates(item, updates, now)
        index == FindIndex(collections[collectionStatus], itemId)
        updated == [collections EXCEPT
                      ![collectionStatus] = ReplaceAt(@, index, updatedItem)]
    IN  /\ UNCHANGED nextId
        /\ IF fault = "read"
           THEN /\ Throws(op, "UPDATE_FIELD_ERROR", "GET_COLLECTIONS_ERROR")
                /\ UNCHANGED clock
           ELSE IF item = Null \/ collectionStatus = "none"
           THEN /\ Throws(op, "UPDATE_FIELD_ERROR", "ITEM_NOT_FOUND")
                /\ UNCHANGED clock
           ELSE /\ clock' = now
                /\ IF fault = "write"
                   THEN Throws(op, "UPDATE_FIELD_ERROR", "SAVE_COLLECTIONS_ERROR")
                   ELSE /\ medium' = saveAllCollections(medium, updated)
                        /\ emitChange([type |-> "ITEM_UPDATED", item |-> updatedItem])
                        /\ UNCHANGED <<added, removed>>
                        /\ lastOp' = Result(op, collectionStatus, "OK", "", 1)

updateItemRating(itemId, rating) ==
  /\ Idle
  /\ UNCHANGED pending
  /\ IF Less(rating, Num(MIN_RATING)) \/ Less(Num(MAX_RATING), rating)
     THEN /\ Throws("updateItemRating", "INVALID_RATING", "")
          /\ UNCHANGED <<clock, nextId>>
     ELSE updateItemField("updateItemRating", itemId, "userRating" :> rating)

updateItemNotes(itemId, notes) ==
  /\ Idle
  /\ UNCHANGED pending
  /\ IF StrLen(notes) > MAX_NOTES_LENGTH
     THEN /\ Throws("updateItemNotes", "NOTES_TOO_LONG", "")
          /\ UNCHANGED <<clock, nextId>>
     ELSE updateItemField("updateItemNotes", itemId, "notes" :> Trim(notes))

updateItemProgress(itemId, progress) ==
  /\ Idle
  /\ UNCHANGED pending
  /\ IF Less(progress, Num(MIN_PROGRESS)) \/ Less(Num(MAX_PROGRESS), progress)
     THEN /\ Throws("updateItemProgress", "INVALID_PROGRESS", "")
          /\ UNCHANGED <<clock, nextId>>
     ELSE updateItemField("updateItemProgress", itemId, "progress" :> progress)

\* ------------------------------------------------------- clearCollection
clearCollection(status) ==
  /\ Idle
  /\ UNCHANGED pending
  /\ \E fault \in Faults, collections \in {getAllCollections(medium)} :
       LET updated == [collections EXCEPT ![status] = <<>>]
       IN  /\ UNCHANGED <<clock, nextId>>
           /\ IF fault = "read"
              THEN Throws("clearCollection", "CLEAR_COLLECTION_ERROR", "GET_COLLECTIONS_ERROR")
              ELSE IF fault = "write"
              THEN Throws("clearCollection", "CLEAR_COLLECTION_ERROR", "SAVE_COLLECTIONS_ERROR")
              ELSE /\ medium' = saveAllCollections(medium, updated)
                   /\ emitChange([type |-> "COLLECTION_CLEARED", status |-> status])
                   /\ removed' = removed + Len(collections[status])
                   /\ UNCHANGED added
                   /\ lastOp' = Result("clearCollection", status, "OK", "", 1)

\* the caller takes the result of the call; the next call can start
Return ==
  /\ ~Idle
  /\ lastOp' = NoOp
  /\ emitted' = <<>>
  /\ inbox' = <<>>
  /\ UNCHANGED <<medium, clock, nextId, added, removed, listeners, pending>>

Next ==
  \/ \E mediaItem \in MediaItems, status \in CollectionStatus : addItem(mediaItem, status)
  \/ \E itemId \in ItemIds : removeItem(itemId)
  \/ \E itemId \in ItemIds, newStatus \in CollectionStatus : updateItemStatus(itemId, newStatus)
  \/ \E itemId \in ItemIds, rating \in RatingInputs : updateItemRating(itemId, rating)
  \/ \E itemId \in ItemIds, notes \in NotesInputs : updateItemNotes(itemId, notes)
  \/ \E itemId \in ItemIds, progress \in ProgressInputs : updateItemProgress(itemId, progress)
  \/ \E status \in CollectionStatus : clearCollection(status)
  \/ Return

Spec == Init /\ [][Next]_vars

\* ================================================================ profile
isUserProfile(obj) ==
  /\ Has(obj, "id")
  /\ Has(obj, "name")
  /\ Has(obj, "age")
  /\ Has(obj, "preferredGenres")
  /\ Has(obj, "createdAt")
  /\ Has(obj, "updatedAt")

\* the four field checks both validators make, in the order they make them;
\* `!profile.name` is true of a missing name and of "", `!profile.age` of a
\* missing age and of 0 (ages are integers here)
fieldErrors(profile) ==
  (IF \/ ~Has(profile, "name")
      \/ profile.name = <<>>
      \/ StrLen(Trim(profile.name)) < MIN_NAME_LENGTH
   THEN <<"Name is required">> ELSE <<>>)
  \o (IF /\ Has(profile, "name")
         /\ profile.name # <<>>
         /\ StrLen(profile.name) > MAX_NAME_LENGTH
      THEN <<"Name cannot exceed 50 characters">> ELSE <<>>)
  \o (IF \/ ~Has(profile, "age")
         \/ profile.age = 0
         \/ profile.age < MIN_AGE
         \/ profile.age > MAX_AGE
      THEN <<"Age must be between 1 and 120">> ELSE <<>>)
  \o (IF \/ ~Has(profile, "preferredGenres")
         \/ Len(profile.preferredGenres) = 0
      THEN <<"At least one preferred genre is required">> ELSE <<>>)

\* a validator that reports the first failure only
stopAtFirst(profile) ==
  LET errors == SubSeq(fieldErrors(profile), 1, 1)
  IN  [isValid |-> Len(errors) = 0, errors |-> errors]

\* the helper validateUserProfile of Types/index.ts
validateUserProfile(profile) ==
  LET errors == fieldErrors(profile)
  IN  [isValid |-> Len(errors) = 0, errors |-> errors]

\* the private method DataManager.validateUserProfile
DataManager_validateUserProfile(profile) ==
  LET errors ==
        fieldErrors(profile)
        \o (IF \/ ~Has(profile, "id")
               \/ ~Has(profile, "createdAt")
               \/ ~Has(profile, "updatedAt")
            THEN <<"Profile is missing required system fields">> ELSE <<>>)
  IN  [isValid |-> Len(errors) = 0, errors |-> errors]

\* storageManager.remove
storageRemove(m, key) == [m EXCEPT ![key] = Absent]

\* the result of a call that gives a value back
ValueResult(op, code, cause, writes, value) ==
  [op |-> op, from |-> "none", code |-> code, cause |-> cause,
   writes |-> writes, value |-> value]

\* saveUserProfile, as the rest of the call `op` that reaches it
saveUserProfile(op, profile) ==
  \E fault \in {"none", "write"} :
    IF profile = Null
    THEN IF fault = "write"
         THEN Throws(op, "SAVE_PROFILE_ERROR", "MAX_RETRIES_EXCEEDED")
         ELSE /\ medium' = storageRemove(medium, USER_PROFILE)
              /\ emitChange([type |-> "PROFILE_UPDATED", profile |-> Null])
              /\ lastOp' = ValueResult(op, "OK", "", 0, Null)
              /\ UNCHANGED <<added, removed>>
    ELSE IF ~DataManager_validateUserProfile(profile).isValid
    THEN Throws(op, "SAVE_PROFILE_ERROR", "INVALID_PROFILE_DATA")
    ELSE IF fault = "write"
    THEN Throws(op, "SAVE_PROFILE_ERROR", "MAX_RETRIES_EXCEEDED")
    ELSE /\ medium' = storageSet(medium, USER_PROFILE, profile)
         /\ emitChange([type |-> "PROFILE_UPDATED", profile |-> profile])
         /\ lastOp' = ValueResult(op, "OK", "", 1, profile)
         /\ UNCHANGED <<added, removed>>

createUserProfile(name, age, preferredGenres) ==
  /\ Idle
  /\ UNCHANGED pending
  /\ nextId <= MaxAdds
  /\ clock' = Now(clock)
  /\ nextId' = nextId + 1
  /\ saveUserProfile("createUserProfile",
       [id |-> nextId, name |-> Trim(name), age |-> age,
        preferredGenres |-> preferredGenres,
        createdAt |-> Now(clock), updatedAt |-> Now(clock)])

\* a merge that stamps createdAt as well
restampProfile(profile, updates, now) ==
  ("updatedAt" :> now) @@ ("createdAt" :> now) @@ updates @@ profile

\* { ...currentProfile, ...updates, updatedAt: new Date().toISOString() }
mergeProfile(profile, updates, now) ==
  ("updatedAt" :> now) @@ updates @@ profile

updateUserProfile(updates) ==
  /\ Idle
  /\ UNCHANGED <<pending, nextId>>
  /\ \E fault \in {"none", "read"} :
       LET profile == storageGet(medium, USER_PROFILE)
           now == Now(clock)
       IN  IF fault = "read"
           THEN /\ Throws("updateUserProfile", "GET_PROFILE_ERROR", "MAX_RETRIES_EXCEEDED")
                /\ UNCHANGED clock
           ELSE IF profile # Null /\ ~isUserProfile(profile)
           \* getUserProfile clears the invalid profile and gives null
           THEN /\ medium' = storageRemove(medium, USER_PROFILE)
                /\ lastOp' = Result("updateUserProfile", "none", "PROFILE_NOT_FOUND", "", 0)
                /\ emitted' = <<>>
                /\ inbox' = <<>>
                /\ UNCHANGED <<added, removed, listeners, clock>>
           ELSE IF profile = Null
           THEN /\ Throws("updateUserProfile", "PROFILE_NOT_FOUND", "")
                /\ UNCHANGED clock
           ELSE /\ clock' = now
                /\ saveUserProfile("updateUserProfile",
                     mergeProfile(profile, updates, now))

\* saveAppState: the writes of the given parts are started together
\* (Promise.all); `failing` are the parts whose storage call gives up
saveAppState(appState) ==
  /\ Idle
  /\ UNCHANGED <<pending, clock, nextId, added, removed>>
  /\ \E failing \in SUBSET DOMAIN appState :
       LET userSaved ==
             /\ Has(appState, "user")
             /\ "user" \notin failing
             /\ \/ appState.user = Null
                \/ DataManager_validateUserProfile(appState.user).isValid
           collectionsSaved ==
             Has(appState, "collections") /\ "collections" \notin failing
           flagSaved ==
             Has(appState, "isFirstLaunch") /\ "isFirstLaunch" \notin failing
           m1 == IF ~userSaved THEN medium
                 ELSE IF appState.user = Null
                 THEN storageRemove(medium, USER_PROFILE)
                 ELSE storageSet(medium, USER_PROFILE, appState.user)
           m2 == IF collectionsSaved
                 THEN saveAllCollections(m1, appState.collections) ELSE m1
           m3 == IF flagSaved
                 THEN storageSet(m2, IS_FIRST_LAUNCH, appState.isFirstLaunch) ELSE m2
           failed == (Has(appState, "user") /\ ~userSaved) \/ failing # {}
           writes == Cardinality({k \in {"collections", "isFirstLaunch"} :
                                    Has(appState, k) /\ k \notin failing})
                     + (IF userSaved /\ appState.user # Null THEN 1 ELSE 0)
       IN  /\ medium' = m3
           /\ IF userSaved
              THEN emitChange([type |-> "PROFILE_UPDATED", profile |-> appState.user])
              ELSE /\ emitted' = <<>>
                   /\ inbox' = <<>>
                   /\ UNCHANGED listeners
           /\ lastOp' = Result("saveAppState", "none",
                               IF failed THEN "SAVE_STATE_ERROR" ELSE "OK", "", writes)

\* ------------------------------------------------------------ addListener
addListener(listener) ==
  /\ Idle
  /\ \A i \in 1..Len(listeners) : listeners[i].id # listener.id
  /\ listeners' = Append(listeners, listener)
  /\ UNCHANGED <<medium, clock, nextId, added, removed, emitted, lastOp,
                 inbox, pending>>

\* a call, outside any dispatch, of the handle addListener returned
unsubscribeHandle(id) ==
  /\ Idle
  /\ \E i \in 1..Len(listeners) : listeners[i].id = id
  /\ listeners' = unsubscribe(listeners, id)
  /\ UNCHANGED <<medium, clock, nextId, added, removed, emitted, lastOp,
                 inbox, pending>>

\* ------------------------------------------------- profile operations
NameInputs ==
  { <<>>, <<Sp(2)>>, <<Ch(MIN_NAME_LENGTH)>>, <<Ch(MAX_NAME_LENGTH)>>,
    <<Ch(MAX_NAME_LENGTH + 1)>>, <<Sp(1), Ch(MAX_NAME_LENGTH - 1)>>,
    <<Sp(1), Ch(MAX_NAME_LENGTH)>> }
AgeInputs == {MIN_AGE - 1, MIN_AGE, MAX_AGE, MAX_AGE + 1}
GenreInputs == {<<>>, <<28>>}
UpdateInputs ==
  {[name |-> n] : n \in NameInputs}
    \cup {[age |-> a] : a \in AgeInputs}
    \cup {[preferredGenres |-> g] : g \in GenreInputs}

ProfileNext ==
  \/ \E name \in NameInputs, age \in AgeInputs, preferredGenres \in GenreInputs :
       createUserProfile(name, age, preferredGenres)
  \/ \E updates \in UpdateInputs : updateUserProfile(updates)
  \/ Return

ProfileSpec == Init /\ [][ProfileNext]_vars

\* ------------------------------------------------------- the first launch
\* isFirstLaunch: `isFirst !== false`, and true when the read fails
isFirstLaunch ==
  /\ Idle
  /\ emitted' = <<>>
  /\ inbox' = <<>>
  /\ UNCHANGED <<medium, clock, nextId, added, removed, listeners, pending>>
  /\ \E fault \in {"none", "read"} :
       \* the error caught is logged (cause) and true is returned
       lastOp' = ValueResult("isFirstLaunch", "OK",
                   IF fault = "read" THEN "MAX_RETRIES_EXCEEDED" ELSE "", 0,
                   IF fault = "read" THEN TRUE
                   ELSE IF medium[IS_FIRST_LAUNCH] = Absent THEN TRUE
                   ELSE JSONparse(medium[IS_FIRST_LAUNCH]) # FALSE)

\* completeFirstLaunch: storageManager.set(IS_FIRST_LAUNCH, false), the
\* error of which is not caught
completeFirstLaunch ==
  /\ Idle
  /\ emitted' = <<>>
  /\ inbox' = <<>>
  /\ UNCHANGED <<clock, nextId, added, removed, listeners, pending>>
  /\ \E fault \in {"none", "write"} :
       IF fault = "write"
       THEN /\ lastOp' = Result("completeFirstLaunch", "none",
                                "MAX_RETRIES_EXCEEDED", "", 0)
            /\ UNCHANGED medium
       ELSE /\ medium' = storageSet(medium, IS_FIRST_LAUNCH, FALSE)
            /\ lastOp' = Result("completeFirstLaunch", "none", "OK", "", 1)

\* storageManager.clear: every key of the medium is removed
clear ==
  /\ Idle
  /\ emitted' = <<>>
  /\ inbox' = <<>>
  /\ UNCHANGED <<clock, nextId, added, removed, listeners, pending>>
  /\ \E fault \in {"none", "write"} :
       IF fault = "write"
       THEN /\ lastOp' = Result("clear", "none", "MAX_RETRIES_EXCEEDED", "", 0)
            /\ UNCHANGED medium
       ELSE /\ medium' = [k \in STORAGE_KEYS |-> Absent]
            /\ lastOp' = Result("clear", "none", "OK", "", 1)

\* the calls made around the first launch: the flag is read, the profile is
\* created, the flag is set; storage may be cleared
LaunchNext ==
  \/ isFirstLaunch
  \/ completeFirstLaunch
  \/ clear
  \/ \E name \in NameInputs, age \in AgeInputs, preferredGenres \in GenreInputs :
       createUserProfile(name, age, preferredGenres)
  \/ Return

LaunchSpec == Init /\ [][LaunchNext]_vars

\* ------------------------------------------- operations with listeners
ListenerInputs ==
  {Listener(1, "throw"), Listener(2, "ok"), Listener(3, "unsubscribe")}
AProfile ==
  [name |-> <<Ch(MIN_NAME_LENGTH)>>, age |-> MIN_AGE, preferredGenres |-> <<28>>]
SaveInputs ==
  { [collections |-> EmptyCollections],
    [user |-> Null, isFirstLaunch |-> FALSE] }

ListenerNext ==
  \/ \E listener \in ListenerInputs : addListener(listener)
  \/ \E id \in {l.id : l \in ListenerInputs} : unsubscribeHandle(id)
  \/ addItem(Media(1, "a"), "watching")
  \/ removeItem(1)
  \/ updateItemStatus(1, "watched")
  \/ updateItemRating(1, Num(MAX_RATING))
  \/ updateItemNotes(1, <<Ch(1)>>)
  \/ updateItemProgress(1, Num(MAX_PROGRESS))
  \/ clearCollection("watching")
  \/ createUserProfile(AProfile.name, AProfile.age, AProfile.preferredGenres)
  \/ updateUserProfile([age |-> MAX_AGE])
  \/ \E appState \in SaveInputs : saveAppState(appState)
  \/ Return

ListenerSpec == Init /\ [][ListenerNext]_vars

\* ------------------------------------------------------ overlapping calls
\* Calls of addItem and removeItem that overlap: a call runs from one await
\* to the next in one step, and between two steps of it any other call may
\* take steps.  pending holds the calls in flight, each with the await it
\* stands at (`at`) and its local variables.  The storage calls succeed.
Settled(i) == SubSeq(pending, 1, i - 1) \o SubSeq(pending, i + 1, Len(pending))
\* What a call cannot see, kept with it for stating properties: `alone` says
\* that no other call has been in flight since it was made, `before` is the
\* set of item ids the record held when it was made.
Started(calls) ==
  [alone |-> calls = <<>>,
   before |-> UNION {{collection[j].id : j \in 1..Len(collection)} :
                collection \in {getAllCollections(medium)[s] : s \in CollectionStatus}}]
Overlapped(calls) == [j \in 1..Len(calls) |-> [calls[j] EXCEPT !.alone = FALSE]]
History(call) == [alone |-> call.alone, before |-> call.before]
\* nothing is being delivered to a listener in a step that is no dispatch
Quiet == emitted' = <<>> /\ inbox' = <<>> /\ UNCHANGED listeners

call_addItem(mediaItem, status) ==
  /\ Len(pending) < MaxPending
  /\ pending' = Append(Overlapped(pending),
                        Started(pending)
                          @@ [op |-> "addItem", at |-> "getAllCollections",
                              mediaItem |-> mediaItem, status |-> status])
  /\ lastOp' = NoOp
  /\ Quiet
  /\ UNCHANGED <<medium, clock, nextId, added, removed>>

call_removeItem(itemId) ==
  /\ Len(pending) < MaxPending
  /\ pending' = Append(Overlapped(pending),
                        Started(pending)
                          @@ [op |-> "removeItem", at |-> "getAllCollections",
                              itemId |-> itemId])
  /\ lastOp' = NoOp
  /\ Quiet
  /\ UNCHANGED <<medium, clock, nextId, added, removed>>

\* `await this.getAllCollections()` of call i resolves
resume_getAllCollections(i) ==
  LET call == pending[i]
      collections == getAllCollections(medium)
  IN  /\ call.at = "getAllCollections"
      /\ Quiet
      /\ UNCHANGED <<medium, clock, nextId, added, removed>>
      /\ IF call.op = "addItem"
         THEN /\ pending' = [pending EXCEPT ![i] =
                   ("collections" :> collections)
                     @@ [call EXCEPT !.at = "findItemByMediaId"]]
              /\ lastOp' = NoOp
         ELSE IF Holders(collections, call.itemId) = {}
         THEN /\ pending' = Settled(i)
              /\ lastOp' = Result("removeItem", "none", "REMOVE_ITEM_ERROR",
                                  "ITEM_NOT_FOUND", 0)
         ELSE /\ pending' = [pending EXCEPT ![i] = History(call) @@
                   [op |-> "removeItem", at |-> "saveAllCollections",
                    itemId |-> call.itemId,
                    collections |-> RemoveFromAll(collections, call.itemId),
                    event |-> [type |-> "ITEM_REMOVED", itemId |-> call.itemId]]]
              /\ lastOp' = NoOp

\* `await this.findItemByMediaId(mediaItem.id)` of call i resolves
resume_findItemByMediaId(i) ==
  LET call == pending[i]
      existingItem == findItemByMediaId(medium, call.mediaItem.id)
      now == Now(clock)
      newItem == createCollectionItem(call.mediaItem, call.status, nextId, now)
  IN  /\ call.at = "findItemByMediaId"
      /\ Quiet
      /\ UNCHANGED <<medium, added, removed>>
      /\ IF existingItem # Null
         THEN /\ pending' = Settled(i)
              /\ lastOp' = Result("addItem", "none", "ADD_ITEM_ERROR",
                                  "DUPLICATE_ITEM", 0)
              /\ UNCHANGED <<clock, nextId>>
         ELSE /\ nextId <= MaxAdds
              /\ clock' = now
              /\ nextId' = nextId + 1
              /\ pending' = [pending EXCEPT ![i] = History(call) @@
                   [op |-> "addItem", at |-> "saveAllCollections",
                    status |-> call.status,
                    collections |-> [call.collections EXCEPT
                                       ![call.status] = Push(@, newItem)],
                    event |-> [type |-> "ITEM_ADDED", item |-> newItem]]]
              /\ lastOp' = NoOp

\* the setItem of call i reaches storage
resume_saveAllCollections(i) ==
  LET call == pending[i]
  IN  /\ call.at = "saveAllCollections"
      /\ medium' = saveAllCollections(medium, call.collections)
      /\ pending' = [pending EXCEPT ![i] = [call EXCEPT !.at = "emitChange"]]
      /\ lastOp' = NoOp
      /\ Quiet
      /\ UNCHANGED <<clock, nextId, added, removed>>

\* call i continues after `await this.saveAllCollections(collections)`:
\* it emits its event and returns
resume_emitChange(i) ==
  LET call == pending[i]
  IN  /\ call.at = "emitChange"
      /\ emitChange(call.event)
      /\ pending' = Settled(i)
      /\ lastOp' = Result(call.op,
                          IF call.op = "addItem" THEN call.status ELSE "none",
                          "OK", "", 1)
      /\ added' = IF call.op = "addItem" THEN added + 1 ELSE added
      /\ removed' = IF call.op = "removeItem" THEN removed + 1 ELSE removed
      /\ UNCHANGED <<medium, clock, nextId>>

ConcNext ==
  \/ addListener(Listener(2, "ok"))
  \/ \E mediaItem \in MediaItems : call_addItem(mediaItem, "watching")
  \/ \E itemId \in ItemIds : call_removeItem(itemId)
  \/ \E i \in 1..Len(pending) : resume_getAllCollections(i)
  \/ \E i \in 1..Len(pending) : resume_findItemByMediaId(i)
  \/ \E i \in 1..Len(pending) : resume_saveAllCollections(i)
  \/ \E i \in 1..Len(pending) : resume_emitChange(i)

ConcSpec == Init /\ [][ConcNext]_vars

\* --------------------------------------------- reads of whatever is stored
\* a stored text that JSON.parse rejects with a SyntaxError
Corrupt == [kind |-> "text"]

\* what the collections key may hold when the program starts: nothing, a
\* text that does not decode, the text `null`, or the text of a record whose
\* partitions, where present, hold well-formed and malformed items
GoodItem(i) == createCollectionItem(Media(i, "a"), "watching", i, 0)
BadItems ==
  { Without(GoodItem(2), "updatedAt"),
    [GoodItem(2) EXCEPT !.status = "dropped"],
    [GoodItem(2) EXCEPT !.mediaItem = Without(@, "title")] }
PartitionInputs ==
  {<<>>, <<GoodItem(1)>>} \cup {<<b>> : b \in BadItems}
    \cup {<<b, GoodItem(1)>> : b \in BadItems}
StoredRecords ==
  {[watched |-> <<>>, watching |-> x, will_watch |-> y] :
     x \in PartitionInputs, y \in PartitionInputs}
    \cup {[watching |-> x] : x \in PartitionInputs}
StoredTexts ==
  {Absent, Corrupt, JSONstringify(Null)}
    \cup {JSONstringify(r) : r \in StoredRecords}

ReadInit ==
  /\ medium \in {[k \in STORAGE_KEYS |-> IF k = COLLECTIONS THEN t ELSE Absent] :
                   t \in StoredTexts}
  /\ clock = 0
  /\ nextId = 1
  /\ added = 0
  /\ removed = 0
  /\ emitted = <<>>
  /\ lastOp = NoOp
  /\ listeners = <<>>
  /\ inbox = <<>>
  /\ pending = <<>>

ReadOps == {"getItemsByStatus", "findItemByMediaId", "getAllItems"}

\* what the read operation op gives back for argument arg
ReadValue(op, arg, m) ==
  CASE op = "getItemsByStatus" -> getItemsByStatus(m, arg)
    [] op = "findItemByMediaId" -> findItemByMediaId(m, arg)
    [] op = "getAllItems" -> getAllItems(m)
    [] op = "getAllCollections" -> getAllCollections(m)

\* a call of a read operation: its one step is getAllCollections, whose
\* storageManager.get gives up (fault), or finds a text that does not
\* decode, removes the key and throws DATA_CORRUPTION, or decodes it
ReadCall(op, arg) ==
  /\ Idle
  /\ UNCHANGED <<clock, nextId, pending>>
  /\ \E fault \in {"none", "read"} :
       IF fault = "read"
       THEN Throws(op, "GET_COLLECTIONS_ERROR", "MAX_RETRIES_EXCEEDED")
       ELSE IF medium[COLLECTIONS] = Corrupt
       THEN /\ medium' = storageRemove(medium, COLLECTIONS)
            /\ lastOp' = Result(op, "none", "GET_COLLECTIONS_ERROR",
                                "DATA_CORRUPTION", 0)
            /\ emitted' = <<>>
            /\ inbox' = <<>>
            /\ UNCHANGED <<added, removed, listeners>>
       ELSE /\ lastOp' = ValueResult(op, "OK", "", 0, ReadValue(op, arg, medium))
            /\ emitted' = <<>>
            /\ inbox' = <<>>
            /\ UNCHANGED <<medium, added, removed, listeners>>

ReadNext ==
  \/ \E status \in CollectionStatus : ReadCall("getItemsByStatus", status)
  \/ \E mediaId \in {m.id : m \in MediaItems} : ReadCall("findItemByMediaId", mediaId)
  \/ ReadCall("getAllItems", Null)
  \/ ReadCall("getAllCollections", Null)
  \/ Return

ReadSpec == ReadInit /\ [][ReadNext]_vars

\* ------------------------------------------------- the profile over time
\* getUserProfile: a stored value that is no UserProfile is removed and
\* read as null
getUserProfile ==
  /\ Idle
  /\ emitted' = <<>>
  /\ inbox' = <<>>
  /\ UNCHANGED <<clock, nextId, added, removed, listeners, pending>>
  /\ \E fault \in {"none", "read", "remove"} :
       LET profile == storageGet(medium, USER_PROFILE)
           throws == /\ lastOp' = Result("getUserProfile", "none",
                                         "GET_PROFILE_ERROR", "MAX_RETRIES_EXCEEDED", 0)
                     /\ UNCHANGED medium
       IN  IF fault = "read" THEN throws
           ELSE IF profile # Null /\ ~isUserProfile(profile)
           THEN IF fault = "remove" THEN throws
                ELSE /\ medium' = storageRemove(medium, USER_PROFILE)
                     /\ lastOp' = ValueResult("getUserProfile", "OK", "", 0, Null)
           ELSE /\ lastOp' = ValueResult("getUserProfile", "OK", "", 0, profile)
                /\ UNCHANGED medium

\* saveUserProfile called by itself
call_saveUserProfile(profile) ==
  /\ Idle
  /\ UNCHANGED <<pending, clock, nextId>>
  /\ saveUserProfile("saveUserProfile", profile)

\* a profile as createUserProfile builds it
ProfileInputs ==
  {Null,
   [id |-> 9, name |-> <<Ch(MIN_NAME_LENGTH)>>, age |-> MAX_AGE,
    preferredGenres |-> <<>>, createdAt |-> 0, updatedAt |-> 0]}

\* profile operations, collection operations and reads in any order
AccountNext ==
  \/ createUserProfile(AProfile.name, AProfile.age, AProfile.preferredGenres)
  \/ \E updates \in {[age |-> MAX_AGE], [age |-> MAX_AGE + 1]} :
       updateUserProfile(updates)
  \/ getUserProfile
  \/ \E profile \in ProfileInputs : call_saveUserProfile(profile)
  \/ \E appState \in SaveInputs : saveAppState(appState)
  \/ isFirstLaunch
  \/ completeFirstLaunch
  \/ clear
  \/ addItem(Media(1, "a"), "watching")
  \/ removeItem(1)
  \/ ReadCall("getAllCollections", Null)
  \/ Return

AccountSpec == Init /\ [][AccountNext]_vars

\* ------------------------------------------------- writes that give up
\* The mutating operations with a listener registered, each with storage
\* calls that succeed or give up after their retries.  saveAppState is given
\* a profile and a collections record, so that an error of it is the write
\* of one of the two giving up.
StateInputs ==
  {[user |-> profile, collections |-> EmptyCollections] : profile \in ProfileInputs}

FailNext ==
  \/ addListener(Listener(2, "ok"))
  \/ addItem(Media(1, "a"), "watching")
  \/ removeItem(1)
  \/ updateItemStatus(1, "watched")
  \/ updateItemRating(1, Num(MAX_RATING))
  \/ clearCollection("watching")
  \/ createUserProfile(AProfile.name, AProfile.age, AProfile.preferredGenres)
  \/ updateUserProfile([age |-> MAX_AGE])
  \/ \E appState \in StateInputs : saveAppState(appState)
  \/ Return

FailSpec == Init /\ [][FailNext]_vars

\* ---------------------------------------------------- the helper, called
\* a form's fields: each of name, age and preferredGenres given or undefined
FormInputs ==
  { name @@ age @@ genres :
      name \in {<<>>} \cup {[name |-> n] : n \in NameInputs},
      age \in {<<>>} \cup {[age |-> a] : a \in AgeInputs},
      genres \in {<<>>} \cup {[preferredGenres |-> g] : g \in GenreInputs} }

\* a call of the helper: it reads and writes nothing but its argument
validate(profile) ==
  /\ Idle
  /\ lastOp' = [op |-> "validateUserProfile", from |-> "none", code |-> "OK",
                cause |-> "", writes |-> 0, input |-> profile,
                value |-> validateUserProfile(profile)]
  /\ UNCHANGED <<medium, clock, nextId, added, removed, emitted, listeners,
                 inbox, pending>>

ValidateNext ==
  \/ \E profile \in FormInputs : validate(profile)
  \/ Return

ValidateSpec == Init /\ [][ValidateNext]_vars

\* ------------------------------------------- field updates at the limits
FieldRatings ==
  {Num(n) : n \in {MIN_RATING - 1, MIN_RATING, MAX_RATING, MAX_RATING + 1}}
    \cup {NaN}
FieldProgress ==
  {Num(n) : n \in {MIN_PROGRESS - 1, MIN_PROGRESS, MAX_PROGRESS, MAX_PROGRESS + 1}}
    \cup {NaN}
FieldNotes ==
  { <<Sp(2)>>, <<Ch(MAX_NOTES_LENGTH)>>, <<Ch(MAX_NOTES_LENGTH + 1)>>,
    <<Sp(1), Ch(MAX_NOTES_LENGTH - 2), Sp(1)>>, <<Sp(1), Ch(MAX_NOTES_LENGTH)>> }

FieldNext ==
  \/ addItem(Media(1, "a"), "watching")
  \/ \E itemId \in ItemIds, rating \in FieldRatings : updateItemRating(itemId, rating)
  \/ \E itemId \in ItemIds, notes \in FieldNotes : updateItemNotes(itemId, notes)
  \/ \E itemId \in ItemIds, progress \in FieldProgress : updateItemProgress(itemId, progress)
  \/ Return

FieldSpec == Init /\ [][FieldNext]_vars

\* ------------------------------------------------------- JSON, as text
\* Where what is stored matters as text, a JSON text is the sequence of its
\* tokens, a JS value is a record named by its type: [string |-> s],
\* Num(n), NaN, [boolean |-> b], Null, [undefined |-> TRUE],
\* [array |-> items], and [object |-> members] with the members
\* <<[name, value], ...>> in the order of the object's own keys.  Strings
\* are taken whole.
Str(s) == [string |-> s]
Bool(b) == [boolean |-> b]
Undefined == [undefined |-> TRUE]
Obj(members) == [object |-> members]
Arr(items) == [array |-> items]
Member(name, value) == [name |-> name, value |-> value]
P(c) == [p |-> c]

RECURSIVE JSON_stringify(_)
RECURSIVE stringifyMembers(_)
RECURSIVE stringifyItems(_)
\* the items of an array, each behind a comma; undefined is written as null
stringifyItems(items) ==
  IF items = <<>> THEN <<>>
  ELSE <<P(",")>>
         \o (IF Has(Head(items), "undefined") THEN <<P("null")>>
             ELSE JSON_stringify(Head(items)))
         \o stringifyItems(Tail(items))
\* the members after the first one written, each behind a comma
stringifyMembers(members) ==
  IF members = <<>> THEN <<>>
  ELSE <<P(","), [str |-> Head(members).name], P(":")>>
         \o JSON_stringify(Head(members).value)
         \o stringifyMembers(Tail(members))
\* mutant: a member whose value is null is left out as well
skipNulls(members) ==
  SelectSeq(members, LAMBDA m : ~Has(m.value, "undefined") /\ m.value # Null)
\* a member whose value is undefined is not written
written(members) == SelectSeq(members, LAMBDA m : ~Has(m.value, "undefined"))
\* JSON.stringify(value), for a value other than undefined
JSON_stringify(value) ==
  IF Has(value, "string") THEN <<[str |-> value.string]>>
  ELSE IF Has(value, "num") THEN <<[num |-> value.num]>>
  ELSE IF Has(value, "nan") THEN <<P("null")>>
  ELSE IF Has(value, "boolean")
       THEN <<P(IF value.boolean THEN "true" ELSE "false")>>
  ELSE IF Has(value, "null") THEN <<P("null")>>
  ELSE IF Has(value, "array")
       THEN IF value.array = <<>> THEN <<P("["), P("]")>>
            ELSE <<P("[")>> \o Tail(stringifyItems(value.array)) \o <<P("]")>>
  ELSE LET members == written(value.object)
       IN  IF members = <<>> THEN <<P("{"), P("}")>>
           ELSE <<P("{")>> \o Tail(stringifyMembers(members)) \o <<P("}")>>

SyntaxError == [ok |-> FALSE]
Parsed(value, next) == [ok |-> TRUE, value |-> value, next |-> next]
At(text, i, token) == i <= Len(text) /\ text[i] = token

RECURSIVE parseValue(_, _)
RECURSIVE parseMembers(_, _, _)
RECURSIVE parseItems(_, _, _)
\* the items of an array from token i on, after those of `items`
parseItems(text, i, items) ==
  LET v == parseValue(text, i)
  IN  IF ~v.ok THEN SyntaxError
      ELSE LET all == Append(items, v.value)
           IN  IF At(text, v.next, P(",")) THEN parseItems(text, v.next + 1, all)
               ELSE IF At(text, v.next, P("]")) THEN Parsed(Arr(all), v.next + 1)
               ELSE SyntaxError
\* the members of an object from token i on, after those of `members`
parseMembers(text, i, members) ==
  IF ~(i <= Len(text) /\ Has(text[i], "str") /\ At(text, i + 1, P(":")))
  THEN SyntaxError
  ELSE LET v == parseValue(text, i + 2)
       IN  IF ~v.ok THEN SyntaxError
           ELSE LET all == Append(members, Member(text[i].str, v.value))
                IN  IF At(text, v.next, P(",")) THEN parseMembers(text, v.next + 1, all)
                    ELSE IF At(text, v.next, P("}")) THEN Parsed(Obj(all), v.next + 1)
                    ELSE SyntaxError
\* the value that starts at token i
parseValue(text, i) ==
  IF i > Len(text) THEN SyntaxError
  ELSE IF Has(text[i], "str") THEN Parsed(Str(text[i].str), i + 1)
  ELSE IF Has(text[i], "num") THEN Parsed(Num(text[i].num), i + 1)
  ELSE IF text[i] = P("true") THEN Parsed(Bool(TRUE), i + 1)
  ELSE IF text[i] = P("false") THEN Parsed(Bool(FALSE), i + 1)
  ELSE IF text[i] = P("null") THEN Parsed(Null, i + 1)
  ELSE IF text[i] = P("{")
       THEN IF At(text, i + 1, P("}")) THEN Parsed(Obj(<<>>), i + 2)
            ELSE parseMembers(text, i + 1, <<>>)
  ELSE IF text[i] = P("[")
       THEN IF At(text, i + 1, P("]")) THEN Parsed(Arr(<<>>), i + 2)
            ELSE parseItems(text, i + 1, <<>>)
  ELSE SyntaxError
\* JSON.parse(text): the value, or a SyntaxError
JSON_parse(text) ==
  LET v == parseValue(text, 1)
  IN  IF v.ok /\ v.next = Len(text) + 1 THEN v ELSE SyntaxError

\* ------------------------------------------- LocalStorageManager, by steps
\* One call of get, set, remove or clear at a time, a step per await.
\* pending is the stack of executeWithRetry invocations: the call's own, and
\* on top of it that of the remove which get makes when the text does not
\* parse.  Each medium call works or fails, as the medium chooses.
StoredText(text) == [kind |-> "text", text |-> text]
\* JSON.stringify(value) and AsyncStorage.setItem(key, jsonValue)
setItem(m, key, value) == [m EXCEPT ![key] = StoredText(JSON_stringify(value))]
KvsKeys == {USER_PROFILE, IS_FIRST_LAUNCH}
ValueInputs ==
  {Str("a"), Num(0), Bool(FALSE), Null,
   Obj(<<Member("a", Num(1)), Member("b", Obj(<<Member("c", Null)>>))>>),
   Obj(<<Member("a", Undefined), Member("b", NaN)>>)}
\* texts found in storage: none, one that parses, one cut short
TextInputs ==
  {Absent, StoredText(JSON_stringify(Bool(TRUE))),
   StoredText(<<P("{"), [str |-> "a"], P(":")>>)}

KvsResult(op, key, value, code, result, tries, fails, waits) ==
  [op |-> op, key |-> key, value |-> value, code |-> code, result |-> result,
   tries |-> tries, fails |-> fails, waits |-> waits]
KvsNone == KvsResult("none", "", Null, "OK", Null, 0, 0, <<>>)

KvsInit ==
  /\ medium \in [STORAGE_KEYS -> TextInputs]
  /\ \A k \in STORAGE_KEYS \ KvsKeys : medium[k] = Absent
  /\ clock = 0
  /\ nextId = 1
  /\ added = 0
  /\ removed = 0
  /\ emitted = <<>>
  /\ lastOp = KvsNone
  /\ listeners = <<>>
  /\ inbox = <<>>
  /\ pending = <<>>

\* the loop of executeWithRetry at its start: attempt = 0, nothing tried;
\* `after` is the call that returned before this one was made
Invocation(op, key, value) ==
  [op |-> op, key |-> key, value |-> value, at |-> "operation",
   attempt |-> 0, tries |-> 0, fails |-> 0, waits |-> <<>>,
   after |-> [op |-> lastOp.op, key |-> lastOp.key, value |-> lastOp.value,
              code |-> lastOp.code]]

NonRetriable == {"DATA_CORRUPTION", "INVALID_DATA"}
\* mutant: the loop goes round once more
oneMore(attempt) == attempt = maxRetries + 1
\* `attempt === this.maxRetries`
lastAttempt(attempt) == attempt = maxRetries
\* mutant: the same wait every time
flatDelay(attempt) == retryDelay
\* `this.retryDelay * (attempt + 1)`
backoff(attempt) == retryDelay * (attempt + 1)

Top(stack) == stack[Len(stack)]
Below(stack) == SubSeq(stack, 1, Len(stack) - 1)
Going(stack) == [settled |-> FALSE, pending |-> stack]
Done(call, code, result) ==
  [settled |-> TRUE, pending |-> <<>>,
   lastOp |-> KvsResult(call.op, call.key, call.value, code, result,
                        call.tries, call.fails, call.waits)]

RECURSIVE Thrown(_, _)
\* the invocation on top of the stack has returned or thrown for good: the
\* call is over, or the get below, waiting in its catch block, goes on; it
\* throws DATA_CORRUPTION if its remove returned and what the remove threw
\* if not
Finished(stack, code, result) ==
  IF Len(stack) = 1 THEN Done(Top(stack), code, result)
  ELSE Thrown(Below(stack), IF code = "OK" THEN "DATA_CORRUPTION" ELSE code)
\* the catch block of executeWithRetry, the operation of the invocation on
\* top of the stack having thrown an error of this code
Thrown(stack, code) ==
  LET call == [Top(stack) EXCEPT !.fails = @ + 1]
  IN  IF code \in NonRetriable
      THEN Finished(Append(Below(stack), call), code, Null)
      ELSE IF lastAttempt(call.attempt)
      THEN Finished(Append(Below(stack), call), "MAX_RETRIES_EXCEEDED", Null)
      ELSE Going(Append(Below(stack),
                        [call EXCEPT !.at = "delay",
                                     !.waits = Append(@, backoff(call.attempt))]))

Proceed(next) ==
  /\ pending' = next.pending
  /\ lastOp' = IF next.settled THEN next.lastOp ELSE lastOp
  /\ emitted' = <<>>
  /\ inbox' = <<>>
  /\ UNCHANGED <<clock, nextId, added, removed, listeners>>

call_get(key) ==
  /\ pending = <<>>
  /\ Proceed(Going(<<Invocation("get", key, Null)>>))
  /\ UNCHANGED medium
call_set(key, value) ==
  /\ pending = <<>>
  /\ Proceed(Going(<<Invocation("set", key, value)>>))
  /\ UNCHANGED medium
call_remove(key) ==
  /\ pending = <<>>
  /\ Proceed(Going(<<Invocation("remove", key, Null)>>))
  /\ UNCHANGED medium
call_clear ==
  /\ pending = <<>>
  /\ Proceed(Going(<<Invocation("clear", "", Null)>>))
  /\ UNCHANGED medium

\* `await operation()` of the invocation on top of the stack: the medium is
\* called, and the rest of the attempt runs
operation ==
  /\ pending # <<>>
  /\ Top(pending).at = "operation"
  /\ LET call == [Top(pending) EXCEPT !.tries = @ + 1]
         stack == Append(Below(pending), call)
     IN  \E works \in BOOLEAN :
           IF ~works
           THEN /\ UNCHANGED medium
                /\ Proceed(Thrown(stack, CASE call.op = "get" -> "READ_ERROR"
                                           [] call.op = "set" -> "WRITE_ERROR"
                                           [] call.op = "remove" -> "DELETE_ERROR"
                                           [] call.op = "clear" -> "CLEAR_ERROR"))
           ELSE CASE call.op = "get" ->
                       /\ UNCHANGED medium
                       /\ IF medium[call.key] = Absent
                          THEN Proceed(Finished(stack, "OK", Null))
                          ELSE LET parsedValue == JSON_parse(medium[call.key].text)
                               IN  IF parsedValue.ok
                                   THEN Proceed(Finished(stack, "OK", parsedValue.value))
                                   \* `await this.remove(key)` in the catch block
                                   ELSE Proceed(Going(
                                          Append(Append(Below(pending),
                                                        [call EXCEPT !.at = "remove"]),
                                                 Invocation("remove", call.key, Null))))
                  [] call.op = "set" ->
                       /\ medium' = setItem(medium, call.key, call.value)
                       /\ Proceed(Finished(stack, "OK", Null))
                  [] call.op = "remove" ->
                       /\ medium' = [medium EXCEPT ![call.key] = Absent]
                       /\ Proceed(Finished(stack, "OK", Null))
                  [] call.op = "clear" ->
                       /\ medium' = [k \in STORAGE_KEYS |-> Absent]
                       /\ Proceed(Finished(stack, "OK", Null))

\* the timer of `await this.delay(...)` fires and the loop goes round
delay ==
  /\ pending # <<>>
  /\ Top(pending).at = "delay"
  /\ UNCHANGED medium
  /\ Proceed(Going(Append(Below(pending),
                          [Top(pending) EXCEPT !.at = "operation",
                                               !.attempt = @ + 1])))

KvsNext ==
  \/ \E key \in KvsKeys : call_get(key)
  \/ \E key \in KvsKeys, value \in ValueInputs : call_set(key, value)
  \/ \E key \in KvsKeys : call_remove(key)
  \/ call_clear
  \/ operation
  \/ delay

KvsSpec == KvsInit /\ [][KvsNext]_vars
\* every medium call settles and every timer fires
KvsFairSpec == KvsSpec /\ WF_vars(operation) /\ WF_vars(delay)

\* ------------------------------------------------------------ migrateData
\* migrateData as one step.  A migration is [version, migrate]; the migrate
\* function of the model appends its version to the list stored under
\* theme_preference, so that storage tells which migrations were applied
\* and in which order.  Storage holds texts.  Each of the storage calls of a step, and the migrate
\* function itself, can fail: fault names the place in the list and the
\* stage where the call gives up (place 0 is the read of the stored version).
\* The lists hold up to three migrations of different versions, in any order.
DATA_VERSION == "__data_version__"
MIGRATED == "theme_preference"
MigrationLists ==
  {<<>>} \cup {<<a>> : a \in 1..MaxVersion}
    \cup {s \in [1..2 -> 1..MaxVersion] : s[1] # s[2]}
    \cup {s \in [1..3 -> 1..MaxVersion] : s[1] # s[2] /\ s[2] # s[3] /\ s[1] # s[3]}
Stages == {"getAllKeys", "getMultiple", "migrate", "setMultiple", "set"}
MigrationFaults ==
  {[at |-> 0, stage |-> "none"], [at |-> 0, stage |-> "get"]}
    \cup {[at |-> i, stage |-> stage] : i \in 1..3, stage \in Stages}

\* AsyncStorage.getAllKeys()
getAllKeys(m) == {k \in DOMAIN m : m[k] # Absent}
\* getMultiple(keys): the values parsed, null where the text does not parse
getMultiple(m, keys) ==
  [k \in keys |-> LET parsedValue == JSON_parse(m[k].text)
                  IN  IF parsedValue.ok THEN parsedValue.value ELSE Null]
\* setMultiple(items): every entry of items written as text
setMultiple(m, items) ==
  [k \in DOMAIN m \cup DOMAIN items |->
     IF k \in DOMAIN items THEN StoredText(JSON_stringify(items[k])) ELSE m[k]]
\* migration.migrate(allData)
migrate(version, allData) ==
  [k \in DOMAIN allData \cup {MIGRATED} |->
     IF k # MIGRATED THEN allData[k]
     ELSE IF k \in DOMAIN allData
          THEN Arr(Append(allData[k].array, Num(version)))
     ELSE Arr(<<Num(version)>>)]

\* the body of `if (migration.version > currentVersion)` for one migration,
\* giving up at `stage` if that is one of its stages
migrationStep(m, version, stage) ==
  IF stage \in {"getAllKeys", "getMultiple", "migrate", "setMultiple"}
  THEN [ok |-> FALSE, medium |-> m]
  ELSE LET keys == getAllKeys(m)
           allData == getMultiple(m, keys)
           migratedData == migrate(version, allData)
           saved == setMultiple(m, migratedData)
       IN  IF stage = "set" THEN [ok |-> FALSE, medium |-> saved]
           ELSE [ok |-> TRUE, medium |-> setItem(saved, DATA_VERSION, Num(version))]

RECURSIVE forMigrations(_, _, _, _, _)
\* mutant: the loop goes on with the next migration
skipFailed(migrations, i, currentVersion, m, fault) ==
  forMigrations(migrations, i + 1, currentVersion, m, fault)
\* the catch block of migrateData
rethrow(migrations, i, currentVersion, m, fault) ==
  [code |-> "MIGRATION_ERROR", medium |-> m]
\* `for (const migration of migrations)`, from the i-th migration on
forMigrations(migrations, i, currentVersion, m, fault) ==
  IF i > Len(migrations) THEN [code |-> "OK", medium |-> m]
  ELSE IF ~(migrations[i] > currentVersion)
  THEN forMigrations(migrations, i + 1, currentVersion, m, fault)
  ELSE LET step == migrationStep(m, migrations[i],
                                 IF fault.at = i THEN fault.stage ELSE "none")
       IN  IF step.ok
           THEN forMigrations(migrations, i + 1, currentVersion, step.medium, fault)
           ELSE rethrow(migrations, i, currentVersion, step.medium, fault)

\* `await this.get('__data_version__') || 0`
storedVersion(m) ==
  IF m[DATA_VERSION] = Absent THEN 0 ELSE JSON_parse(m[DATA_VERSION].text).value.num
\* the versions applied so far, as storage tells
Applied(m) ==
  IF m[MIGRATED] = Absent THEN <<>>
  ELSE LET items == JSON_parse(m[MIGRATED].text).value.array
       IN  [i \in 1..Len(items) |-> items[i].num]

migrateData(migrations, fault) ==
  /\ Len(Applied(medium)) <= MaxApplied
  /\ fault.at <= Len(migrations)
  /\ LET done == IF fault.stage = "get"
                 THEN [code |-> "MIGRATION_ERROR", medium |-> medium]
                 ELSE forMigrations(migrations, 1, storedVersion(medium),
                                    medium, fault)
     IN  /\ medium' = done.medium
         /\ lastOp' = [op |-> "migrateData", code |-> done.code,
                       migrations |-> migrations, fault |-> fault]
  /\ emitted' = <<>>
  /\ inbox' = <<>>
  /\ UNCHANGED <<clock, nextId, added, removed, listeners, pending>>

MigrateInit ==
  /\ medium = [k \in STORAGE_KEYS \cup {DATA_VERSION} |-> Absent]
  /\ clock = 0
  /\ nextId = 1
  /\ added = 0
  /\ removed = 0
  /\ emitted = <<>>
  /\ lastOp = NoOp
  /\ listeners = <<>>
  /\ inbox = <<>>
  /\ pending = <<>>

MigrateNext ==
  \E migrations \in MigrationLists, fault \in MigrationFaults :
    migrateData(migrations, fault)

MigrateSpec == MigrateInit /\ [][MigrateNext]_vars

\* ------------------------------------------------------ restoreFromBackup
\* restoreFromBackup as one step, on a blob given as text; clear and
\* setMultiple can give up (fault).
\* the member of an object read by name: the last one of that name, or
\* undefined
Get(value, name) ==
  LET at == {j \in 1..Len(value.object) : value.object[j].name = name}
  IN  IF at = {} THEN Undefined
      ELSE value.object[CHOOSE j \in at : \A l \in at : l <= j].value
\* the truthiness of a value, `!value` being its negation
Truthy(value) ==
  /\ ~Has(value, "undefined")
  /\ ~Has(value, "null")
  /\ ~Has(value, "nan")
  /\ Has(value, "boolean") => value.boolean
  /\ Has(value, "num") => value.num # 0
  /\ Has(value, "string") => value.string # ""
\* `typeof value === 'object'`: null, arrays and objects
TypeofObject(value) ==
  Has(value, "null") \/ Has(value, "array") \/ Has(value, "object")
\* the property names of an array's items
IndexNames == <<"0", "1", "2">>
\* Object.entries(items) as a function from the keys: the members of an
\* object, the items of an array under their indexes
ObjectEntries(items) ==
  IF Has(items, "array")
  THEN [k \in {IndexNames[j] : j \in 1..Len(items.array)} |->
          items.array[CHOOSE j \in 1..Len(items.array) : IndexNames[j] = k]]
  ELSE [k \in {items.object[j].name : j \in 1..Len(items.object)} |->
          Get(items, k)]

BackupValues ==
  {Null, Num(5), Obj(<<>>),
   Obj(<<Member("version", Str("1.0.0"))>>),
   Obj(<<Member("data", Null)>>),
   Obj(<<Member("data", Num(0))>>),
   Obj(<<Member("data", Str("a"))>>),
   Obj(<<Member("data", Bool(TRUE))>>),
   Obj(<<Member("data", Arr(<<>>))>>),
   Obj(<<Member("data", Arr(<<Num(1)>>))>>),
   Obj(<<Member("data", Obj(<<>>))>>),
   Obj(<<Member("version", Str("1.0.0")),
         Member("data", Obj(<<Member(USER_PROFILE, Str("a")),
                              Member(COLLECTIONS, Null)>>))>>)}
\* the blobs: the texts of these values, and one cut short
BackupInputs ==
  {JSON_stringify(value) : value \in BackupValues}
    \cup {<<P("{"), [str |-> "data"], P(":")>>}

restoreFromBackup(backupData, fault) ==
  /\ LET backup == JSON_parse(backupData)
         data == IF Has(backup.value, "object")
                 THEN Get(backup.value, "data") ELSE Undefined
         cleared == [k \in DOMAIN medium |-> Absent]
         fails(m) == /\ medium' = m
                     /\ lastOp' = [op |-> "restoreFromBackup",
                                   code |-> "RESTORE_ERROR",
                                   backupData |-> backupData]
     IN  IF ~backup.ok THEN fails(medium)
         \* null.data throws a TypeError
         ELSE IF Has(backup.value, "null") THEN fails(medium)
         ELSE IF ~Truthy(data) \/ ~TypeofObject(data) THEN fails(medium)
         ELSE IF fault = "clear" THEN fails(medium)
         ELSE IF fault = "setMultiple" THEN fails(cleared)
         ELSE /\ medium' = setMultiple(cleared, ObjectEntries(data))
              /\ lastOp' = [op |-> "restoreFromBackup", code |-> "OK",
                            backupData |-> backupData]
  /\ emitted' = <<>>
  /\ inbox' = <<>>
  /\ UNCHANGED <<clock, nextId, added, removed, listeners, pending>>

BackupInit ==
  /\ medium \in [STORAGE_KEYS -> TextInputs]
  /\ \A k \in STORAGE_KEYS \ KvsKeys : medium[k] = Absent
  /\ clock = 0
  /\ nextId = 1
  /\ added = 0
  /\ removed = 0
  /\ emitted = <<>>
  /\ lastOp = NoOp
  /\ listeners = <<>>
  /\ inbox = <<>>
  /\ pending = <<>>

BackupNext ==
  \E backupData \in BackupInputs, fault \in {"none", "clear", "setMultiple"} :
    restoreFromBackup(backupData, fault)

BackupSpec == BackupInit /\ [][BackupNext]_vars

\* ------------------------------------------- createBackup, then a restore
\* A backup is taken, storage is changed by set, remove and clear, and the
\* backup is restored.  The caller's copy of the blob is the one frame of
\* pending; with it are kept, for stating properties, what storage held when
\* the backup was taken (`taken`) and whether storage has been written
\* since (`changed`).
RECURSIVE membersOf(_, _)
\* the members of the object getMultiple builds, one for each key
membersOf(allData, keys) ==
  IF keys = {} THEN <<>>
  ELSE LET key == CHOOSE k \in keys : TRUE
       IN  <<Member(key, allData[key])>> \o membersOf(allData, keys \ {key})
\* mutant: the keys whose value is null are left out
withoutNulls(allData) ==
  Obj(membersOf(allData, {k \in DOMAIN allData : allData[k] # Null}))
\* `result[key] = ...` for every pair: the object createBackup puts in `data`
resultObject(allData) == Obj(membersOf(allData, DOMAIN allData))

\* JSON.stringify({timestamp, version: '1.0.0', data: allData})
backupText(m) ==
  JSON_stringify(Obj(<<Member("timestamp", Str("now")),
                       Member("version", Str("1.0.0")),
                       Member("data", resultObject(getMultiple(m, getAllKeys(m))))>>))

Changed(calls) == [j \in 1..Len(calls) |-> [calls[j] EXCEPT !.changed = TRUE]]

createBackup ==
  /\ \E fault \in {"none", "read"} :
       IF fault = "read"
       THEN /\ lastOp' = [op |-> "createBackup", code |-> "BACKUP_ERROR"]
            /\ UNCHANGED pending
       ELSE /\ lastOp' = [op |-> "createBackup", code |-> "OK"]
            /\ pending' = <<[backupData |-> backupText(medium),
                             taken |-> medium, changed |-> FALSE]>>
  /\ emitted' = <<>>
  /\ inbox' = <<>>
  /\ UNCHANGED <<medium, clock, nextId, added, removed, listeners>>

\* set, remove and clear of the storage manager, each as one step that
\* succeeds or gives up after its retries
kvs_set(key, value) ==
  /\ \E fault \in {"none", "write"} :
       IF fault = "write"
       THEN /\ lastOp' = [op |-> "set", code |-> "MAX_RETRIES_EXCEEDED"]
            /\ UNCHANGED <<medium, pending>>
       ELSE /\ lastOp' = [op |-> "set", code |-> "OK"]
            /\ medium' = setItem(medium, key, value)
            /\ pending' = Changed(pending)
  /\ emitted' = <<>>
  /\ inbox' = <<>>
  /\ UNCHANGED <<clock, nextId, added, removed, listeners>>

kvs_remove(key) ==
  /\ \E fault \in {"none", "write"} :
       IF fault = "write"
       THEN /\ lastOp' = [op |-> "remove", code |-> "MAX_RETRIES_EXCEEDED"]
            /\ UNCHANGED <<medium, pending>>
       ELSE /\ lastOp' = [op |-> "remove", code |-> "OK"]
            /\ medium' = [medium EXCEPT ![key] = Absent]
            /\ pending' = Changed(pending)
  /\ emitted' = <<>>
  /\ inbox' = <<>>
  /\ UNCHANGED <<clock, nextId, added, removed, listeners>>

kvs_clear ==
  /\ \E fault \in {"none", "write"} :
       IF fault = "write"
       THEN /\ lastOp' = [op |-> "clear", code |-> "MAX_RETRIES_EXCEEDED"]
            /\ UNCHANGED <<medium, pending>>
       ELSE /\ lastOp' = [op |-> "clear", code |-> "OK"]
            /\ medium' = [k \in DOMAIN medium |-> Absent]
            /\ pending' = Changed(pending)
  /\ emitted' = <<>>
  /\ inbox' = <<>>
  /\ UNCHANGED <<clock, nextId, added, removed, listeners>>

\* restoreFromBackup on the blob the caller holds
restoreHeld ==
  /\ pending # <<>>
  /\ \E fault \in {"none", "clear", "setMultiple"} :
       restoreFromBackup(pending[1].backupData, fault)

RoundTripNext ==
  \/ createBackup
  \/ \E key \in KvsKeys, value \in ValueInputs : kvs_set(key, value)
  \/ \E key \in KvsKeys : kvs_remove(key)
  \/ kvs_clear
  \/ restoreHeld

RoundTripSpec == BackupInit /\ [][RoundTripNext]_vars

\* ------------------------------------------------- calculateViewingStreak
\* StatisticsManager.calculateViewingStreak on a list of watched items.  A
\* watchedDate is the number of its local calendar day (what toDateString
\* keeps of it); an item may have none.  Today is the day Today.
WatchedInputs ==
  {[id |-> 0]} \cup {[id |-> 0, watchedDate |-> day] : day \in 0..(Today + 1)}
StreakInputs == UNION {[1..n -> WatchedInputs] : n \in 0..MaxItems}

\* .filter((date, index, arr) => index === 0 || arr[index - 1] !== date)
dropRepeats(dates) ==
  LET keep == {i \in 1..Len(dates) : i = 1 \/ dates[i - 1] # dates[i]}
      nth(k) == CHOOSE i \in keep : Cardinality({j \in keep : j <= i}) = k
  IN  [k \in 1..Cardinality(keep) |-> dates[nth(k)]]
RECURSIVE sortDescending(_)
\* .sort((a, b) => b.getTime() - a.getTime())
sortDescending(dates) ==
  IF dates = <<>> THEN <<>>
  ELSE LET rest == sortDescending(Tail(dates))
           ahead == SelectSeq(rest, LAMBDA d : d >= Head(dates))
           behind == SelectSeq(rest, LAMBDA d : d < Head(dates))
       IN  ahead \o <<Head(dates)>> \o behind
RECURSIVE streakLoop(_, _, _, _)
\* the for loop from index i on
streakLoop(sortedDates, i, currentDate, streak) ==
  IF i > Len(sortedDates) THEN streak
  ELSE IF currentDate - sortedDates[i] = 1
       THEN streakLoop(sortedDates, i + 1, sortedDates[i], streak + 1)
       ELSE streak
calculateViewingStreak(items) ==
  LET dated == SelectSeq(items, LAMBDA item : Has(item, "watchedDate"))
      sortedDates ==
        sortDescending(dropRepeats([i \in 1..Len(dated) |-> dated[i].watchedDate]))
  IN  IF items = <<>> THEN 0
      ELSE IF sortedDates = <<>> THEN 0
      ELSE IF Today - sortedDates[1] > 1 THEN 0
      ELSE streakLoop(sortedDates, 2, sortedDates[1], 1)

\* the call is made with some list of items, and returns
calculateStatistics ==
  /\ pending # <<>>
  /\ pending' = <<>>
  /\ lastOp' = [op |-> "calculateStatistics", code |-> "OK",
                watchedItems |-> pending[1].watchedItems,
                viewingStreak |-> calculateViewingStreak(pending[1].watchedItems)]
  /\ UNCHANGED <<medium, clock, nextId, added, removed, emitted, listeners, inbox>>

StreakInit ==
  /\ medium = [k \in STORAGE_KEYS |-> Absent]
  /\ clock = 0
  /\ nextId = 1
  /\ added = 0
  /\ removed = 0
  /\ emitted = <<>>
  /\ lastOp = NoOp
  /\ listeners = <<>>
  /\ inbox = <<>>
  /\ \E watchedItems \in StreakInputs :
       pending = <<[op |-> "calculateStatistics", watchedItems |-> watchedItems]>>

StreakNext == calculateStatistics

StreakSpec == StreakInit /\ [][StreakNext]_vars

\* ================================================================ claims
\* The stored collections record, read off the medium as it is.
Record(m) ==
  IF m[COLLECTIONS] = Absent THEN EmptyCollections ELSE m[COLLECTIONS].value

\* the places <<partition, index>> of the record, and the item at a place
Slots(m) ==
  UNION {{<<s, i>> : i \in 1..Len(Record(m)[s])} : s \in CollectionStatus}
ItemAt(m, p) == Record(m)[p[1]][p[2]]
Places(m, id) == {p \in Slots(m) : ItemAt(m, p).id = id}
IdsIn(m) == {ItemAt(m, p).id : p \in Slots(m)}
TheItem(m, id) == ItemAt(m, CHOOSE p \in Places(m, id) : TRUE)
MediaHeld(m, mediaId) == \E p \in Slots(m) : ItemAt(m, p).mediaItem.id = mediaId
\* the call that has just settled, and whether it returned
Succeeded(op) == lastOp.op = op /\ lastOp.code = "OK"
\* the step is a call of op settling, and it returns
Called(op) == lastOp'.op = op
Returned(op) == lastOp'.op = op /\ lastOp'.code = "OK"
\* the ids stored before and after a step
Kept == IdsIn(medium) \cap IdsIn(medium')
FieldOps == {"updateItemRating", "updateItemNotes", "updateItemProgress"}

\* C1: with the operations run one at a time, the stored record never holds
\* two collection items with the same mediaItem.id, in any partitions.
C1_OneItemPerMediaId ==
  \A p, q \in Slots(medium) :
    ItemAt(medium, p).mediaItem.id = ItemAt(medium, q).mediaItem.id => p = q

\* two items of different media are stored, the second just added
C1_Witness ==
  /\ Succeeded("addItem")
  /\ Cardinality(Slots(medium)) = 2
  /\ added = 2

\* C2: an addItem(m, s') made while an item for m.id is stored fails, emits
\* no event, writes nothing and leaves the stored record as it was, so
\* findItemByMediaId(m.id) still gives the first item.
C2_DuplicateAddRejected ==
  [][\A mediaItem \in MediaItems, status \in CollectionStatus :
       (Called("addItem") /\ MediaHeld(medium, mediaItem.id)
          /\ addItem(mediaItem, status))
         => /\ lastOp'.code # "OK"
            /\ lastOp'.writes = 0
            /\ emitted' = <<>>
            /\ medium' = medium
            /\ findItemByMediaId(medium', mediaItem.id)
                 = findItemByMediaId(medium, mediaItem.id)]_vars

\* a second add of a stored media item has been refused as a duplicate
C2_Witness ==
  /\ lastOp.op = "addItem"
  /\ lastOp.cause = "DUPLICATE_ITEM"
  /\ Cardinality(Slots(medium)) = 1

\* C3: at every point each stored item id is in exactly one partition,
\* getAllItems is as long as the three partitions together, and that length
\* is the number of successful adds minus the number of items removed.
C3_PartitionsConsistent ==
  /\ \A id \in IdsIn(medium) : Cardinality(Places(medium, id)) = 1
  /\ Len(getAllItems(medium))
       = Len(getItemsByStatus(medium, "watched"))
         + Len(getItemsByStatus(medium, "watching"))
         + Len(getItemsByStatus(medium, "will_watch"))
  /\ Len(getAllItems(medium)) = added - removed

\* after two adds and a removal, a status change has moved the item left
C3_Witness ==
  /\ Succeeded("updateItemStatus")
  /\ added = 2
  /\ removed = 1
  /\ lastOp.from # emitted[1].item.status

\* C4: after a successful updateItemStatus(id, s') the item is in partition
\* s' exactly once with status s', and in no other partition; this holds
\* too when s' is the status it already had.
C4_StatusMoveLands ==
  [][\A itemId \in ItemIds, newStatus \in CollectionStatus :
       (Returned("updateItemStatus") /\ updateItemStatus(itemId, newStatus))
         => /\ Cardinality(Places(medium', itemId)) = 1
            /\ \A p \in Places(medium', itemId) :
                 p[1] = newStatus /\ ItemAt(medium', p).status = newStatus
            /\ \A s \in CollectionStatus \ {newStatus} :
                 \A i \in 1..Len(getItemsByStatus(medium', s)) :
                   getItemsByStatus(medium', s)[i].id # itemId]_vars

\* a status update to the status the item already had, beside another item
C4_Witness ==
  /\ Succeeded("updateItemStatus")
  /\ lastOp.from = emitted[1].item.status
  /\ Cardinality(Slots(medium)) = 2

\* C5: a successful updateItemStatus to watched keeps a watchedDate the
\* item already had, and otherwise gives it one read from the clock during
\* the call, not earlier than addedAt; a successful updateItemStatus to
\* watching or will_watch leaves the item without watchedDate.
C5_WatchedDateRule ==
  [][\A itemId \in ItemIds, newStatus \in CollectionStatus :
       (Returned("updateItemStatus") /\ updateItemStatus(itemId, newStatus))
         => LET old == TheItem(medium, itemId)
                new == TheItem(medium', itemId)
            IN  IF newStatus # "watched" THEN ~Has(new, "watchedDate")
                ELSE /\ Has(new, "watchedDate")
                     /\ IF Has(old, "watchedDate")
                        THEN new.watchedDate = old.watchedDate
                        ELSE /\ clock <= new.watchedDate
                             /\ new.watchedDate = clock'
                             /\ new.watchedDate >= new.addedAt]_vars

\* a watched item has been moved to watched again, later than its watchedDate
C5_Witness ==
  /\ Succeeded("updateItemStatus")
  /\ lastOp.from = "watched"
  /\ emitted[1].item.status = "watched"
  /\ emitted[1].item.watchedDate < emitted[1].item.updatedAt

\* C6: no step makes the updatedAt of a stored item smaller.
C6_UpdatedAtMonotonic ==
  [][\A id \in Kept :
       TheItem(medium', id).updatedAt >= TheItem(medium, id).updatedAt]_vars

\* a rating update of an item whose status had been changed before
C6_Witness ==
  /\ Succeeded("updateItemRating")
  /\ Has(emitted[1].item, "watchedDate")
  /\ emitted[1].item.updatedAt > emitted[1].item.watchedDate

\* C7: no step changes the id, the mediaItem or the addedAt of an item that
\* is stored before and after it.
C7_IdentityImmutable ==
  [][\A id \in Kept :
       LET old == TheItem(medium, id)
           new == TheItem(medium', id)
       IN  /\ new.id = old.id
           /\ new.mediaItem = old.mediaItem
           /\ new.addedAt = old.addedAt]_vars

\* an item has had its status changed after its creation, beside another
C7_Witness ==
  /\ Succeeded("updateItemStatus")
  /\ lastOp.from # emitted[1].item.status
  /\ emitted[1].item.updatedAt > emitted[1].item.addedAt
  /\ Cardinality(Slots(medium)) = 2

\* the effect of a field update on the record: the item stays at its place,
\* only `field` and updatedAt of it may differ, every other place is as before
OnlyFieldChanged(itemId, field) ==
  LET p == CHOOSE q \in Places(medium, itemId) : TRUE
      old == ItemAt(medium, p)
      new == ItemAt(medium', p)
  IN  /\ Slots(medium') = Slots(medium)
      /\ \A q \in Slots(medium) \ {p} : ItemAt(medium', q) = ItemAt(medium, q)
      /\ DOMAIN new \ {field} = DOMAIN old \ {field}
      /\ \A k \in DOMAIN old \ {field, "updatedAt"} : new[k] = old[k]

\* C8: a successful updateItemRating, updateItemNotes or updateItemProgress
\* changes only the targeted field and updatedAt of the targeted item, which
\* keeps its partition and position; every other item is unchanged.
C8_FieldUpdateFrame ==
  [][\A itemId \in ItemIds :
       /\ (Returned("updateItemRating")
             /\ \E rating \in RatingInputs : updateItemRating(itemId, rating))
            => OnlyFieldChanged(itemId, "userRating")
       /\ (Returned("updateItemNotes")
             /\ \E notes \in NotesInputs : updateItemNotes(itemId, notes))
            => OnlyFieldChanged(itemId, "notes")
       /\ (Returned("updateItemProgress")
             /\ \E progress \in ProgressInputs : updateItemProgress(itemId, progress))
            => OnlyFieldChanged(itemId, "progress")]_vars

\* the progress of the first of two items of a partition has been updated,
\* the item holding a rating and a watchedDate
C8_Witness ==
  /\ Succeeded("updateItemProgress")
  /\ Len(Record(medium)[lastOp.from]) = 2
  /\ Record(medium)[lastOp.from][1].id = emitted[1].item.id
  /\ Has(emitted[1].item, "userRating")
  /\ Has(emitted[1].item, "watchedDate")

\* C9: after a successful removeItem(id), findItemByMediaId of the item's
\* media id gives null, no getItemsByStatus holds the id, and every
\* partition holds its other items as before, in the same order.
C9_RemoveRemoves ==
  [][\A itemId \in ItemIds :
       (Returned("removeItem") /\ removeItem(itemId))
         => /\ findItemByMediaId(medium', TheItem(medium, itemId).mediaItem.id) = Null
            /\ \A s \in CollectionStatus :
                 LET before == getItemsByStatus(medium, s)
                     after == getItemsByStatus(medium', s)
                     rest == {i \in 1..Len(before) : before[i].id # itemId}
                 IN  /\ \A i \in 1..Len(after) : after[i].id # itemId
                     /\ Len(after) = Cardinality(rest)
                     /\ \A i \in rest :
                          after[Cardinality({j \in rest : j <= i})] = before[i]]_vars

\* the first of two items of a partition has been removed
C9_Witness ==
  /\ Succeeded("removeItem")
  /\ added = 2
  /\ removed = 1
  /\ Len(Record(medium)[lastOp.from]) = 1

\* C10: removeItem, updateItemStatus, updateItemRating, updateItemNotes and
\* updateItemProgress called with an id that no partition holds fail, write
\* nothing to storage and emit no event.
C10_UnknownIdRejected ==
  [][\A itemId \in ItemIds \ IdsIn(medium) :
       (/\ lastOp'.op \in {"removeItem", "updateItemStatus"} \cup FieldOps
        /\ \/ removeItem(itemId)
           \/ \E newStatus \in CollectionStatus : updateItemStatus(itemId, newStatus)
           \/ \E rating \in RatingInputs : updateItemRating(itemId, rating)
           \/ \E notes \in NotesInputs : updateItemNotes(itemId, notes)
           \/ \E progress \in ProgressInputs : updateItemProgress(itemId, progress))
         => /\ lastOp'.code # "OK"
            /\ lastOp'.writes = 0
            /\ medium' = medium
            /\ emitted' = <<>>]_vars

\* a notes update of an id that is not stored has failed, another being stored
C10_Witness ==
  /\ lastOp.op = "updateItemNotes"
  /\ lastOp.cause = "ITEM_NOT_FOUND"
  /\ Slots(medium) # {}

\* the reasons for failure the operations give by name
NamedReasons ==
  {"DUPLICATE_ITEM", "ITEM_NOT_FOUND", "PROFILE_NOT_FOUND",
   "INVALID_PROFILE_DATA", "INVALID_RATING", "NOTES_TOO_LONG",
   "INVALID_PROGRESS"}
\* why a call failed: the error first thrown, whatever wraps it later
Reason(result) == IF result.cause # "" THEN result.cause ELSE result.code

\* C11: a call that fails for one of the named reasons delivers an error
\* whose code is that reason.
C11_NamedCodeDelivered ==
  Reason(lastOp) \in NamedReasons => lastOp.code = Reason(lastOp)

\* a number of the interval lo..hi
InRange(x, lo, hi) == Has(x, "num") /\ lo <= x.num /\ x.num <= hi

\* a range check: a value outside lo..hi fails with `code` and neither reads
\* nor writes storage nor emits; a value inside, for a stored item and with
\* storage working, is what the stored item holds in `field` afterwards
RangeChecked(itemId, value, lo, hi, code, field) ==
  IF InRange(value, lo, hi)
  THEN /\ lastOp'.code # code
       /\ lastOp'.code = "OK" => TheItem(medium', itemId)[field] = value
  ELSE /\ lastOp'.code = code
       /\ lastOp'.writes = 0
       /\ medium' = medium
       /\ emitted' = <<>>

\* C12: updateItemRating accepts exactly the ratings 1..10 and
\* updateItemProgress exactly the progress values 0..100: a value outside
\* fails with INVALID_RATING / INVALID_PROGRESS, storage untouched and no
\* event, whatever the item id; a value inside is stored for a stored item.
C12_RangeChecked ==
  [][\A itemId \in ItemIds :
       /\ \A rating \in FieldRatings :
            (Called("updateItemRating") /\ updateItemRating(itemId, rating))
              => RangeChecked(itemId, rating, MIN_RATING, MAX_RATING,
                              "INVALID_RATING", "userRating")
       /\ \A progress \in FieldProgress :
            (Called("updateItemProgress") /\ updateItemProgress(itemId, progress))
              => RangeChecked(itemId, progress, MIN_PROGRESS, MAX_PROGRESS,
                              "INVALID_PROGRESS", "progress")]_vars

\* t is s with its leading and trailing whitespace removed
AllSpaces(s) == \A i \in 1..Len(s) : s[i].c = " "
IsTrimOf(t, s) ==
  /\ t = <<>> \/ (t[1].c # " " /\ t[Len(t)].c # " ")
  /\ \E i \in 0..Len(s), j \in 0..Len(s) :
       /\ i <= j
       /\ t = SubSeq(s, i + 1, j)
       /\ AllSpaces(SubSeq(s, 1, i))
       /\ AllSpaces(SubSeq(s, j + 1, Len(s)))

\* C13: updateItemNotes fails with NOTES_TOO_LONG, storage untouched, exactly
\* when the notes as given (untrimmed) are longer than 500 characters;
\* otherwise, when it returns, the stored notes of the item are the input
\* without its leading and trailing whitespace.
C13_NotesLimitAndTrim ==
  [][\A itemId \in ItemIds, notes \in FieldNotes :
       (Called("updateItemNotes") /\ updateItemNotes(itemId, notes))
         => IF StrLen(notes) > MAX_NOTES_LENGTH
            THEN /\ lastOp'.code = "NOTES_TOO_LONG"
                 /\ lastOp'.writes = 0
                 /\ medium' = medium
            ELSE /\ lastOp'.code # "NOTES_TOO_LONG"
                 /\ lastOp'.code = "OK"
                      => IsTrimOf(TheItem(medium', itemId).notes, notes)]_vars

\* notes of 500 characters with whitespace at both ends have been stored
\* without it
C13_Witness ==
  /\ Succeeded("updateItemNotes")
  /\ emitted[1].item.notes = <<Ch(MAX_NOTES_LENGTH - 2)>>
  /\ TheItem(medium, emitted[1].item.id).notes = <<Ch(MAX_NOTES_LENGTH - 2)>>

\* the acceptance rule: trimmed name length in 1..50, age in 1..120, at
\* least one preferred genre
Acceptable(profile) ==
  /\ Has(profile, "name")
  /\ StrLen(Trim(profile.name)) \in MIN_NAME_LENGTH..MAX_NAME_LENGTH
  /\ Has(profile, "age")
  /\ profile.age \in MIN_AGE..MAX_AGE
  /\ Has(profile, "preferredGenres")
  /\ Len(profile.preferredGenres) >= 1

\* the call settling in this step treats the profile as the rule says: an
\* acceptable one is not refused as invalid, any other is refused with
\* nothing persisted; and the helper gives the same verdict
Accepts(profile) ==
  /\ IF Acceptable(profile)
     THEN lastOp'.cause # "INVALID_PROFILE_DATA"
     ELSE /\ lastOp'.cause = "INVALID_PROFILE_DATA"
          /\ lastOp'.writes = 0
          /\ medium' = medium
  /\ validateUserProfile(profile).isValid <=> Acceptable(profile)

\* C14: createUserProfile, updateUserProfile and the validateUserProfile
\* helper accept a profile exactly when its trimmed name has 1..50
\* characters, its age is in 1..120 and it has at least one preferred genre;
\* a rejected profile leaves nothing persisted.
C14_ProfileAcceptance ==
  [][/\ \A name \in NameInputs, age \in AgeInputs, preferredGenres \in GenreInputs :
          (Called("createUserProfile")
             /\ createUserProfile(name, age, preferredGenres))
            => Accepts([name |-> name, age |-> age,
                        preferredGenres |-> preferredGenres])
     /\ \A updates \in UpdateInputs :
          (/\ Called("updateUserProfile")
           /\ lastOp'.code \notin {"PROFILE_NOT_FOUND", "GET_PROFILE_ERROR"}
           /\ updateUserProfile(updates))
            => Accepts(updates @@ storageGet(medium, USER_PROFILE))]_vars

\* the field rules a form violates
NameViolated(profile) ==
  \/ ~Has(profile, "name")
  \/ StrLen(Trim(profile.name)) \notin MIN_NAME_LENGTH..MAX_NAME_LENGTH
AgeViolated(profile) ==
  ~Has(profile, "age") \/ profile.age \notin MIN_AGE..MAX_AGE
GenresViolated(profile) ==
  ~Has(profile, "preferredGenres") \/ Len(profile.preferredGenres) = 0
Reports(errors, messages) == \E i \in 1..Len(errors) : errors[i] \in messages

\* C15: the helper validateUserProfile does not stop at the first failure:
\* its error list holds an error for each of the violated field rules (name,
\* age, genres), and isValid is true exactly when the list is empty.
C15_AllErrorsCollected ==
  lastOp.op = "validateUserProfile" =>
    LET profile == lastOp.input
        result == lastOp.value
    IN  /\ NameViolated(profile)
             => Reports(result.errors, {"Name is required",
                                        "Name cannot exceed 50 characters"})
        /\ AgeViolated(profile)
             => Reports(result.errors, {"Age must be between 1 and 120"})
        /\ GenresViolated(profile)
             => Reports(result.errors,
                        {"At least one preferred genre is required"})
        /\ result.isValid <=> Len(result.errors) = 0

\* a form violating the three rules at once has been validated and three
\* errors have come back
C15_Witness ==
  /\ lastOp.op = "validateUserProfile"
  /\ NameViolated(lastOp.input)
  /\ AgeViolated(lastOp.input)
  /\ GenresViolated(lastOp.input)
  /\ Len(lastOp.value.errors) = 3
  /\ ~lastOp.value.isValid

\* the stored profile, or Null
Profile(m) == storageGet(m, USER_PROFILE)

\* C16: updateUserProfile(updates) fails with PROFILE_NOT_FOUND and writes
\* nothing when no profile is stored; when it returns, the profile persisted
\* and the profile returned are the stored profile overridden by the given
\* fields, with id and createdAt unchanged and updatedAt not earlier than
\* before.
C16_ProfileMerge ==
  [][\A updates \in UpdateInputs :
       (Called("updateUserProfile") /\ updateUserProfile(updates)) =>
         LET old == Profile(medium)
             new == Profile(medium')
         IN  /\ (old = Null /\ lastOp'.code # "GET_PROFILE_ERROR")
                  => /\ lastOp'.code = "PROFILE_NOT_FOUND"
                     /\ lastOp'.writes = 0
                     /\ medium' = medium
             /\ old # Null => lastOp'.code # "PROFILE_NOT_FOUND"
             /\ lastOp'.code = "OK"
                  => /\ new = lastOp'.value
                     /\ DOMAIN new = DOMAIN old
                     /\ \A k \in DOMAIN updates : new[k] = updates[k]
                     /\ \A k \in DOMAIN old \ (DOMAIN updates \cup {"updatedAt"}) :
                          new[k] = old[k]
                     /\ new.id = old.id
                     /\ new.createdAt = old.createdAt
                     /\ new.updatedAt >= old.updatedAt
             /\ lastOp'.code # "OK" => medium' = medium]_vars

\* a profile has been updated after its creation: the stored profile is the
\* one returned, stamped later than it was created
C16_Witness ==
  /\ Succeeded("updateUserProfile")
  /\ Profile(medium) = lastOp.value
  /\ lastOp.value.updatedAt > lastOp.value.createdAt
  /\ lastOp.value.age = MAX_AGE

\* the change an event reports is what storage m holds
Durable(event, m) ==
  CASE event.type \in {"ITEM_ADDED", "ITEM_UPDATED"} ->
         \E p \in Slots(m) : ItemAt(m, p) = jsonItem(event.item)
    [] event.type = "ITEM_REMOVED" -> event.itemId \notin IdsIn(m)
    [] event.type = "COLLECTION_CLEARED" -> Record(m)[event.status] = <<>>
    [] event.type = "PROFILE_UPDATED" -> Profile(m) = event.profile

\* the listener calls of a dispatch that delivered event to listener id
Deliveries(calls, id, event) ==
  {k \in 1..Len(calls) : calls[k].to = id /\ calls[k].event = event}

\* the operations whose last step before returning is the dispatch
Notifying ==
  {"addItem", "removeItem", "updateItemStatus", "clearCollection",
   "createUserProfile", "updateUserProfile"} \cup FieldOps

\* C18: a listener that throws while handling an event does not make the
\* triggering operation fail, does not undo the persisted change, and does
\* not keep a listener registered after it from receiving the same event
\* (in a dispatch during which no listener before that one unsubscribes).
C18_ThrowingListenerIsolated ==
  [][\A i \in 1..Len(listeners) :
       (/\ emitted' # <<>>
        /\ listeners[i].does = "throw"
        /\ Deliveries(inbox', listeners[i].id, emitted'[1]) # {})
         => /\ lastOp'.op \in Notifying => lastOp'.code = "OK"
            /\ Durable(emitted'[1], medium')
            /\ \A j \in (i + 1)..Len(listeners) :
                 (\A h \in 1..(j - 1) : listeners[h].does # "unsubscribe")
                   => Deliveries(inbox', listeners[j].id, emitted'[1]) # {}]_vars

\* an item has been added with a throwing listener registered before
\* another: both were called, the first threw, the item is stored
C18_Witness ==
  /\ Succeeded("addItem")
  /\ Len(inbox) = 2
  /\ inbox[1].threw
  /\ ~inbox[2].threw
  /\ Durable(emitted[1], medium)

\* the kind of event of each mutating operation
KindOf(op) ==
  CASE op = "addItem" -> "ITEM_ADDED"
    [] op = "removeItem" -> "ITEM_REMOVED"
    [] op \in {"updateItemStatus"} \cup FieldOps -> "ITEM_UPDATED"
    [] op = "clearCollection" -> "COLLECTION_CLEARED"
    [] op \in {"createUserProfile", "updateUserProfile"} -> "PROFILE_UPDATED"

\* C19: every mutating operation that succeeds delivers exactly one event of
\* its own kind to each registered listener, and no change of the stored
\* collections record becomes durable without such an event.
C19_OneEventPerMutation ==
  [][/\ (lastOp'.op \in Notifying /\ lastOp'.code = "OK")
          => /\ Len(emitted') = 1
             /\ emitted'[1].type = KindOf(lastOp'.op)
             /\ \A i \in 1..Len(listeners) :
                  Cardinality(Deliveries(inbox', listeners[i].id, emitted'[1])) = 1
     /\ Record(medium') # Record(medium)
          => /\ Len(emitted') = 1
             /\ emitted'[1].type \in {"ITEM_ADDED", "ITEM_REMOVED",
                                      "ITEM_UPDATED", "COLLECTION_CLEARED"}]_vars

\* C17: persist-then-notify: at the moment a listener receives ITEM_ADDED or
\* ITEM_UPDATED the persisted record holds the item, and at ITEM_REMOVED it
\* does not hold the id, also when mutating calls overlap at their awaits.
C17_PersistThenNotify ==
  \A k \in 1..Len(inbox) : Durable(inbox[k].event, medium)

\* C20: getItemsByStatus, findItemByMediaId and getAllItems never change what
\* storage holds and never emit an event, whatever is stored under the
\* collections key: valid items, malformed items or text that does not decode.
C20_ReadsArePure ==
  [][lastOp'.op \in ReadOps
       => /\ medium' = medium
          /\ emitted' = <<>>
          /\ inbox' = <<>>]_vars

\* C21: when the text stored under the collections key does not decode,
\* getAllCollections returns the empty record instead of raising an error
\* (the read of storage itself working).
C21_LenientRead ==
  [][(/\ lastOp'.op = "getAllCollections"
      /\ medium[COLLECTIONS] = Corrupt
      /\ lastOp'.cause # "MAX_RETRIES_EXCEEDED")
       => /\ lastOp'.code = "OK"
          /\ lastOp'.value = EmptyCollections]_vars

\* C29: two addItem calls for different media ids that overlap can both
\* return success while the persisted record holds only one of the two
\* items (C29_Witness is that state); a successful addItem call during
\* which no other call was in flight leaves its item in the persisted
\* record together with every item the record held when it was made.
C29_AloneKeepsBoth ==
  [][(/\ lastOp'.op = "addItem"
      /\ lastOp'.code = "OK"
      /\ Len(pending) = 1
      /\ pending[1].alone)
       => /\ pending[1].event.item.id \in IdsIn(medium')
          /\ pending[1].before \subseteq IdsIn(medium')
          /\ MediaHeld(medium', pending[1].event.item.mediaItem.id)]_vars
\* the lost update: one of two overlapping calls has returned success and
\* emitted, the other has written and is about to emit and return, and the
\* record holds a single item, of another media id than the latter's
C29_Witness ==
  /\ Len(pending) = 1
  /\ pending[1].op = "addItem"
  /\ pending[1].at = "emitChange"
  /\ Succeeded("addItem")
  /\ added = 1
  /\ removed = 0
  /\ Cardinality(IdsIn(medium)) = 1
  /\ ~MediaHeld(medium, pending[1].event.item.mediaItem.id)

\* C30: isFirstLaunch returns true as long as completeFirstLaunch has not
\* succeeded, and false on every call made after it has succeeded and
\* before storage is cleared.  (Among the calls of LaunchSpec the flag is
\* stored as false exactly when completeFirstLaunch has succeeded since
\* storage was last cleared.)
C30_FirstLaunchFlag ==
  [][Called("isFirstLaunch")
       => (lastOp'.value = FALSE
             <=> medium[IS_FIRST_LAUNCH] = JSONstringify(FALSE))]_vars

\* the call of op that is in progress returns in this step
Settles(op) ==
  /\ pending # <<>>
  /\ pending' = <<>>
  /\ pending[1].op = op
  /\ lastOp'.code = "OK"
\* the call in progress was made right after a call of op on the same key
\* had returned
Follows(op) ==
  /\ pending[1].after.op = op
  /\ pending[1].after.code = "OK"
  /\ pending[1].after.key = pending[1].key
RECURSIVE Serializable(_)
\* a string, an integer, a boolean, null, or a record of such values
Serializable(value) ==
  \/ Has(value, "string")
  \/ Has(value, "num")
  \/ Has(value, "boolean")
  \/ Has(value, "null")
  \/ /\ Has(value, "object")
     /\ \A j \in 1..Len(value.object) : Serializable(value.object[j].value)
\* the waits made so far are base * 1, base * 2, ...
Linear(waits) == \A k \in 1..Len(waits) : waits[k] = retryDelay * k

\* C22: a get on a key whose stored text does not parse makes exactly one
\* read attempt, whatever the medium does during the clean-up: when the
\* remove made by its first attempt is over, the get raises DATA_CORRUPTION
\* without another attempt, and the key is absent.
C22_CorruptReadOnce ==
  [][(/\ Len(pending) = 2
      /\ Len(pending') < 2
      /\ pending[1].tries = 1)
       => /\ pending' = <<>>
          /\ lastOp'.code = "DATA_CORRUPTION"
          /\ lastOp'.tries = 1
          /\ medium'[lastOp'.key] = Absent]_vars

\* C23: a call of get, set, remove or clear attempts its operation at most
\* maxRetries + 1 times whatever the medium does; when it returns, the
\* attempt that succeeded is its last one and every attempt before failed;
\* it raises MAX_RETRIES_EXCEEDED after exactly maxRetries + 1 failed
\* attempts; and every call made comes to an end.
C23_BoundedRetries ==
  /\ [](/\ \A i \in 1..Len(pending) : pending[i].tries <= maxRetries + 1
        /\ lastOp.tries <= maxRetries + 1
        /\ (lastOp.op # "none" /\ lastOp.code = "OK")
              => lastOp.tries = lastOp.fails + 1
        /\ lastOp.code = "MAX_RETRIES_EXCEEDED"
              => /\ lastOp.tries = maxRetries + 1
                 /\ lastOp.fails = maxRetries + 1)
  /\ ((pending # <<>>) ~> (pending = <<>>))
\* a call has given up after four failed attempts
C23_Witness ==
  /\ pending = <<>>
  /\ lastOp.code = "MAX_RETRIES_EXCEEDED"
  /\ lastOp.tries = maxRetries + 1

\* C24: the wait after the k-th failed attempt of an invocation is
\* retryDelay * k; no wait follows a success, the last failed attempt, or
\* an attempt that fails with a non-retriable error, which is rethrown
\* without another attempt.
C24_LinearBackoff ==
  /\ \A i \in 1..Len(pending) :
       /\ Linear(pending[i].waits)
       /\ Len(pending[i].waits) = pending[i].fails
       /\ pending[i].tries =
            pending[i].fails + (IF pending[i].at = "remove" THEN 1 ELSE 0)
  /\ Linear(lastOp.waits)
  /\ lastOp.op # "none" =>
       /\ lastOp.code = "OK" => Len(lastOp.waits) = lastOp.tries - 1
       /\ lastOp.code # "OK" =>
            /\ lastOp.tries = lastOp.fails
            /\ Len(lastOp.waits) = lastOp.tries - 1
       /\ lastOp.code = "MAX_RETRIES_EXCEEDED" => Len(lastOp.waits) = maxRetries
       /\ lastOp.code \in {"OK", "MAX_RETRIES_EXCEEDED"} \cup NonRetriable
\* a call has waited 1000, 2000 and 3000 ms and given up with no further wait
C24_Witness ==
  /\ pending = <<>>
  /\ lastOp.code = "MAX_RETRIES_EXCEEDED"
  /\ lastOp.waits = <<retryDelay, retryDelay * 2, retryDelay * 3>>

\* C25: a get that follows a successful set of a serializable value on the
\* same key returns a value equal to it; a get that follows a successful
\* remove of the key returns null; a successful set or remove leaves the
\* texts under the other keys as they are.
C25_RoundTrip ==
  [][/\ (Settles("get") /\ Follows("set")
          /\ Serializable(pending[1].after.value))
        => lastOp'.result = pending[1].after.value
     /\ (Settles("get") /\ Follows("remove")) => lastOp'.result = Null
     /\ (Settles("set") \/ Settles("remove"))
        => \A k \in STORAGE_KEYS \ {pending[1].key} : medium'[k] = medium[k]]_vars
\* a get has returned the nested record that a set stored
C25_Witness ==
  /\ pending = <<>>
  /\ lastOp.op = "get"
  /\ lastOp.code = "OK"
  /\ lastOp.result =
       Obj(<<Member("a", Num(1)), Member("b", Obj(<<Member("c", Null)>>))>>)

RECURSIVE Ascending(_)
\* the versions of a set, lowest first
Ascending(versions) ==
  IF versions = {} THEN <<>>
  ELSE LET low == CHOOSE v \in versions : \A w \in versions : v <= w
       IN  <<low>> \o Ascending(versions \ {low})
\* the versions of a list that exceed the stored one
Due(migrations, m) ==
  {migrations[i] : i \in {j \in 1..Len(migrations) : migrations[j] > storedVersion(m)}}
\* the migrations of a list that stand before place i and exceed the stored
\* version, in the order of the list
DueBefore(migrations, i, m) ==
  SelectSeq(SubSeq(migrations, 1, i - 1), LAMBDA v : v > storedVersion(m))
Last(s) == s[Len(s)]

\* C26: whatever the order of the list, a migrateData that returns has
\* applied exactly the migrations whose version exceeds the stored version
\* (0 if none is stored), each once and lowest version first, and the
\* stored version is then the highest version applied.
C26_AscendingMigrations ==
  [][(Called("migrateData") /\ lastOp'.code = "OK")
       => LET due == Ascending(Due(lastOp'.migrations, medium))
          IN  /\ Applied(medium') = Applied(medium) \o due
              /\ storedVersion(medium') =
                   IF due = <<>> THEN storedVersion(medium) ELSE Last(due)]_vars

\* C27: when a step of migrateData fails, the call raises MIGRATION_ERROR,
\* no later migration of the list is run, the steps before it stay applied,
\* and the stored version is that of the last step that succeeded (the
\* version stored before, if none did).
C27_FailedStepStops ==
  [][(/\ Called("migrateData")
      /\ lastOp'.fault.at >= 1
      /\ lastOp'.migrations[lastOp'.fault.at] > storedVersion(medium))
       => LET done == DueBefore(lastOp'.migrations, lastOp'.fault.at, medium)
              failed == lastOp'.migrations[lastOp'.fault.at]
          IN  /\ lastOp'.code = "MIGRATION_ERROR"
              /\ Applied(medium') \in {Applied(medium) \o done,
                                       Applied(medium) \o done \o <<failed>>}
              /\ storedVersion(medium') =
                   IF done = <<>> THEN storedVersion(medium) ELSE Last(done)]_vars
\* the second of three migrations has failed: the first is applied and its
\* version stored, the third has not run
C27_Witness ==
  /\ lastOp.op = "migrateData"
  /\ lastOp.code = "MIGRATION_ERROR"
  /\ lastOp.migrations = <<1, 2, 3>>
  /\ lastOp.fault.at = 2
  /\ Applied(medium) = <<1>>
  /\ storedVersion(medium) = 1

\* the blob decodes to a record whose data member is a record, a map from
\* keys to values
WellFormedBackup(backupData) ==
  LET backup == JSON_parse(backupData)
  IN  /\ backup.ok
      /\ Has(backup.value, "object")
      /\ Has(Get(backup.value, "data"), "object")

\* C28: restoreFromBackup on a blob that does not decode, or whose data
\* member is missing or is not a map from keys to values, raises
\* RESTORE_ERROR and leaves storage exactly as it was before the call.
C28_InvalidBackupRejected ==
  [][(Called("restoreFromBackup") /\ ~WellFormedBackup(lastOp'.backupData))
       => /\ lastOp'.code = "RESTORE_ERROR"
          /\ medium' = medium]_vars

\* C39: in every state reached through addItem, updateItemStatus and the
\* field updates, every item of the watched partition has a watchedDate
\* and no item of watching or will_watch has one.
C39_WatchedHaveDate ==
  \A p \in Slots(medium) :
    Has(ItemAt(medium, p), "watchedDate") <=> p[1] = "watched"

\* the days on which an item of the list was watched
WatchDays(items) ==
  {items[i].watchedDate : i \in {j \in 1..Len(items) : Has(items[j], "watchedDate")}}
\* the number of consecutive days, counted back from day `latest`, that are
\* all in `days`
RunBackFrom(latest, days) ==
  CHOOSE n \in 1..(latest + 1) :
    /\ \A d \in (latest - n + 1)..latest : d \in days
    /\ (latest - n) \notin days

\* C33: for any list of watched items in any order, viewingStreak is 0 when
\* the most recent watchedDate is more than one day before today, and
\* otherwise the number of consecutive distinct calendar days, counted
\* back from the most recent watch day, on each of which an item was
\* watched (0 for a list without any watchedDate).
C33_ViewingStreak ==
  lastOp.op = "calculateStatistics"
    => LET days == WatchDays(lastOp.watchedItems)
           latest == CHOOSE d \in days : \A e \in days : e <= d
       IN  lastOp.viewingStreak =
             IF days = {} THEN 0
             ELSE IF Today - latest > 1 THEN 0
             ELSE RunBackFrom(latest, days)

\* C31: once the user_profile key holds a profile, no operation other than
\* a clear of the whole storage makes the key absent.
C31_ProfileKept ==
  [][(medium[USER_PROFILE] # Absent /\ lastOp'.op # "clear")
       => medium'[USER_PROFILE] # Absent]_vars

\* C32: an operation in which a storage call has given up does not return
\* a value; it raises an error.
C32_NoDefaultOnFailure ==
  lastOp.cause = "MAX_RETRIES_EXCEEDED" => lastOp.code # "OK"
\* the number of times listener id is registered in ls
Registered(ls, id) == Cardinality({h \in 1..Len(ls) : ls[h].id = id})

\* C36: when a listener calls its own unsubscribe handle while it handles an
\* event, every other listener registered when the dispatch began receives
\* that event exactly once (once for each of its registrations).
C36_SelfUnsubscribeIsolated ==
  [][\A i \in 1..Len(listeners) :
       (/\ emitted' # <<>>
        /\ listeners[i].does = "unsubscribe"
        /\ Deliveries(inbox', listeners[i].id, emitted'[1]) # {})
         => \A j \in 1..Len(listeners) :
              listeners[j].id # listeners[i].id
                => Cardinality(Deliveries(inbox', listeners[j].id, emitted'[1]))
                     = Registered(listeners, listeners[j].id)]_vars
\* C34: however calls of addItem and removeItem overlap, the stored record
\* never holds two collection items with the same mediaItem.id.
C34_NoDuplicateUnderOverlap ==
  \A mediaItem \in MediaItems :
    Cardinality({p \in Slots(medium) :
                   ItemAt(medium, p).mediaItem.id = mediaItem.id}) <= 1
\* the call that has just settled met a write of the collections record or
\* of the profile that gave up after its retries
WriteGaveUp(result) ==
  \/ result.cause = "SAVE_COLLECTIONS_ERROR"
  \/ result.code = "SAVE_PROFILE_ERROR" /\ result.cause = "MAX_RETRIES_EXCEEDED"
  \/ result.op = "saveAppState" /\ result.code = "SAVE_STATE_ERROR"

\* C35: when the write of the collections record or of the profile gives up,
\* the operation reports an error, no listener is called, and storage holds
\* what it held before the call.
C35_FailedWriteLeavesNoTrace ==
  [][WriteGaveUp(lastOp')
       => /\ lastOp'.code # "OK"
          /\ inbox' = <<>>
          /\ medium' = medium]_vars
\* C37: between calls of migrateData, failed ones included, every migration
\* whose data is stored has a version no higher than the stored version, and
\* none has been applied twice.
C37_VersionCoversData ==
  LET applied == Applied(medium)
  IN  /\ \A i \in 1..Len(applied) : applied[i] <= storedVersion(medium)
      /\ \A i, j \in 1..Len(applied) : applied[i] = applied[j] => i = j
\* the map from the keys storage holds to the values their texts decode to
ValueMap(m) ==
  [k \in {key \in DOMAIN m : m[key] # Absent} |-> JSON_parse(m[k].text).value]
\* every text storage holds decodes
AllDecode(m) ==
  \A k \in DOMAIN m : m[k] # Absent => JSON_parse(m[k].text).ok

\* C38: a restoreFromBackup that returns, on the blob a createBackup gave
\* when every stored value decoded, leaves storage with exactly the keys and
\* values it held when the backup was taken, whatever sets, removes and
\* clears were made in between.
C38_BackupRoundTrip ==
  (/\ lastOp.op = "restoreFromBackup"
   /\ lastOp.code = "OK"
   /\ AllDecode(pending[1].taken))
    => ValueMap(medium) = ValueMap(pending[1].taken)

\* a backup of two stored values, one of them null, has been restored after
\* storage was written in between
C38_Witness ==
  /\ lastOp.op = "restoreFromBackup"
  /\ lastOp.code = "OK"
  /\ pending[1].changed
  /\ AllDecode(pending[1].taken)
  /\ \A key \in KvsKeys : pending[1].taken[key] # Absent
  /\ \E key \in KvsKeys : ValueMap(pending[1].taken)[key] = Null
  /\ ValueMap(medium) = ValueMap(pending[1].taken)
====
